---- MODULE Spec2Model ----
(***************************************************************************)
(* Message Injector plugin: the persistence store, the fabricator, the     *)
(* injector, the dispatch interceptor with its timers, and the plugin      *)
(* lifecycle.  Two iterations of the plugin are modelled side by side:     *)
(*   "v3.2.0"  src/plugins/sev/src/settings.tsx (same store and loop as    *)
(*             v3.1.0 in src/unnamed/part_000)                             *)
(*   "v1.0.3"  src/plugins/sev/src/index.ts, lines 1-844 (debounced)       *)
(***************************************************************************)
EXTENDS Integers, Sequences, FiniteSets, TLC

VARIABLES
    variant,                 \* which iteration of the plugin is running
    persistentMessages,      \* storage.persistentMessages: channel id -> list
    injectionResults,        \* module-level table of tested injection methods
    enabled,                 \* storage.enabled
    preventMessageDeletion,  \* storage.preventMessageDeletion
    autoInjectOnStartup,     \* storage.autoInjectOnStartup
    unpatches,               \* number of installed dispatch interceptors
    channelMonitorInterval,  \* TRUE while the poll interval is running
    currentChannelId,        \* last channel observed by the poll
    selectedChannel,         \* host: SelectedChannelStore.getChannelId()
    api,                     \* TRUE while window.__MESSAGE_FAKER__ exists
    loadPc,                  \* position of onLoad
    unloadedAt,              \* where onLoad stood when onUnload ran, or "no"
    cleared,                 \* channels whose list a clear removed and that
                             \* have had no append since
    timers,                  \* pending setTimeout callbacks
    calls,                   \* fakeMessage invocations in flight
    now,                     \* Date.now()
    lastReinjectTime,        \* v1.0.3: channel id -> time of last reinjection
    isStartupComplete,       \* v1.0.3
    out                      \* what the last step returned / dispatched

vars == <<variant, persistentMessages, injectionResults, enabled,
          preventMessageDeletion, autoInjectOnStartup, unpatches,
          channelMonitorInterval, currentChannelId, selectedChannel, api,
          loadPc, unloadedAt, cleared, timers, calls, now,
          lastReinjectTime, isStartupComplete, out>>

----------------------------------------------------------------------------
(* Bounds of the model *)

\* longest list a channel may hold in the model
MaxLen == 2
\* Math.random() * 4096 is drawn from 0 .. MaxRand-1 in the model
MaxRand == 2
\* number of clock advances
MaxTicks == 1
\* the host and the API stay quiet while this many timeouts are pending
MaxTimers == 1
\* test dispatches that may throw during the runs of runParameterTests
MaxFailures == 1

(* Program constants *)

REINJECT_DEBOUNCE_MS == 3000
\* one clock advance, in milliseconds
TickMs == REINJECT_DEBOUNCE_MS

Variants == {"v3.2.0", "v1.0.3"}
Channels == {"c1", "c2"}
Procs    == {"p1", "p2"}
Null     == "null"

----------------------------------------------------------------------------
(* Identifiers are strings; the model writes them as tuples of characters *)

Digits     == {"0", "1", "2", "3", "4", "5", "6", "7", "8", "9"}
Whitespace == {" "}

U456   == <<"4", "5", "6">>        \* a user the host directory knows
U789   == <<"7", "8", "9">>        \* numeric, unknown to the host directory
T123   == <<"1", "2", "3">>        \* a user with an open DM channel c1
TPad   == <<" ", "7", "7">>        \* numeric after trim, no DM channel
UAbc   == <<"a", "b", "c">>        \* not numeric
U4x    == <<"4", "x">>             \* not numeric
Absent == <<>>                     \* undefined / empty string

RECURSIVE TrimLeft(_)
TrimLeft(s) ==
    IF s # <<>> /\ Head(s) \in Whitespace THEN TrimLeft(Tail(s)) ELSE s

RECURSIVE TrimRight(_)
TrimRight(s) ==
    IF s # <<>> /\ s[Len(s)] \in Whitespace
    THEN TrimRight(SubSeq(s, 1, Len(s) - 1)) ELSE s

Trim(s) == TrimRight(TrimLeft(s))

\* faulty variant: the digit test is left out
validateUserIdAnyText(userId) ==
    /\ userId # Absent
    /\ Trim(userId) # <<>>

\* /^\d+$/.test(userId.trim()), false for an empty or missing id
validateUserId(userId) ==
    /\ userId # Absent
    /\ Trim(userId) # <<>>
    /\ \A i \in 1..Len(Trim(userId)) : Trim(userId)[i] \in Digits

----------------------------------------------------------------------------
(* Host directories (host-owned, fixed in the model) *)

\* UserStore.getUser(userId): the display name, or Null when unknown
UserDirectory(userId) == IF userId = U456 THEN "Bob" ELSE Null

\* ChannelStore.getDMFromUserId(userId)
getDMChannelId(userId) == IF userId = T123 THEN "c1" ELSE Null

\* getUserInfo: the fields of the sender the message keeps
getUserInfo(userId) ==
    IF UserDirectory(userId) # Null
    THEN [username |-> "bob", global_name |-> UserDirectory(userId)]
    ELSE [username |-> "Unknown User", global_name |-> "undefined"]

----------------------------------------------------------------------------
(* Fabricator *)

NoId == <<>>

\* `${Date.now()}${random padded to 4}`: the pair determines the string
generateMessageId(t, r) == <<t, r>>

\* the message built by createMessageObject; t and r are the clock and the
\* random draw read while it runs
createMessageObject(channelId, userId, messageId, t, r) ==
    [id         |-> IF messageId # NoId THEN messageId
                    ELSE generateMessageId(t, r),
     channel_id |-> channelId,
     author     |-> [id          |-> userId,
                     username    |-> getUserInfo(userId).username,
                     global_name |-> getUserInfo(userId).global_name],
     timestamp  |-> t]

\* JSON.parse(JSON.stringify(m)): a property whose value is undefined is
\* dropped from the copy
JsonAuthor(a) ==
    IF "global_name" \in DOMAIN a /\ a.global_name = "undefined"
    THEN [id |-> a.id, username |-> a.username]
    ELSE a

JsonMessage(m) ==
    [id |-> m.id, channel_id |-> m.channel_id, author |-> JsonAuthor(m.author),
     timestamp |-> m.timestamp]

JsonList(l) == [i \in 1..Len(l) |-> JsonMessage(l[i])]

----------------------------------------------------------------------------
(* Persistence store: a map whose keys are the channels that have a list *)

Has(store, c) == c \in DOMAIN store

\* faulty variant: the other channels go as well
RemoveEveryChannel(store, c) == <<>>

\* faulty variant: the key stays, with an empty list
RemoveKeepKey(store, c) == [x \in DOMAIN store |-> IF x = c THEN <<>> ELSE store[x]]

Remove(store, c) == [x \in (DOMAIN store) \ {c} |-> store[x]]

Put(store, c, l) == [x \in (DOMAIN store) \cup {c} |->
                        IF x = c THEN l ELSE store[x]]

Ids(l) == {l[i].id : i \in 1..Len(l)}

\* every message some channel's list holds
Stored(store) == UNION {{store[c][i] : i \in 1..Len(store[c])} :
                           c \in DOMAIN store}

\* faulty variant: the copy holds each list last to first
savePersistentMessagesReversed(store) ==
    [c \in DOMAIN store |->
        [i \in 1..Len(store[c]) |->
            JsonMessage(store[c][Len(store[c]) + 1 - i])]]

\* savePersistentMessages: every value of the model's store is a list, so
\* nothing is deleted; the store is replaced by its JSON copy
savePersistentMessages(store) == [c \in DOMAIN store |-> JsonList(store[c])]

\* the append of fakeMessage, v3.2.0: push unless the id is already there
AppendDedup(store, c, m) ==
    LET l == IF Has(store, c) THEN store[c] ELSE <<>>
    IN  Put(store, c, IF m.id \in Ids(l) THEN l ELSE Append(l, m))

\* the append of fakeMessage, v1.0.3: push
AppendPush(store, c, m) ==
    LET l == IF Has(store, c) THEN store[c] ELSE <<>>
    IN  Put(store, c, Append(l, m))

\* faulty variant: the channel's list is overwritten by the new message
StoreOverwrite(v, store, c, m) == savePersistentMessages(Put(store, c, <<m>>))

\* faulty variant: the message is injected without being stored
StoreAppendSkip(v, store, c, m) == store

\* faulty variant: the new message goes to the front of the list
StoreAppendFront(v, store, c, m) ==
    savePersistentMessages(
        Put(store, c, <<m>> \o (IF Has(store, c) THEN store[c] ELSE <<>>)))

\* faulty variant: the entries already in the list take the timestamp of
\* the new message
StoreAppendRestamp(v, store, c, m) ==
    LET l == IF Has(store, c) THEN store[c] ELSE <<>>
    IN  savePersistentMessages(
            Put(store, c,
                Append([i \in 1..Len(l) |->
                           [l[i] EXCEPT !.timestamp = m.timestamp]], m)))

StoreAppend(v, store, c, m) ==
    savePersistentMessages(IF v = "v3.2.0" THEN AppendDedup(store, c, m)
                           ELSE AppendPush(store, c, m))

----------------------------------------------------------------------------
(* Events on the host's dispatcher *)

Ev(type, channelId, id, ids, messages) ==
    [type |-> type, channelId |-> channelId, id |-> id, ids |-> ids,
     idsType |-> "array", messages |-> messages]

\* the event with an ids that is no array but a value of the given type
WithIds(ev, type) == [ev EXCEPT !.idsType = type]

NOOP == Ev("NOOP", Null, NoId, {}, <<>>)

\* Object.entries(injectionResults), in declaration order
MethodOrder ==
    <<"basicMessageCreate", "messageCreateWithLocal",
      "messageCreateWithSilent", "messageCreateWithCached",
      "loadMessagesSuccess", "loadMessagesSuccessWithCached",
      "channelAckBasic", "channelAckWithManual", "channelAckWithLocal",
      "channelAckWithBoth">>

Methods == {MethodOrder[i] : i \in 1..Len(MethodOrder)}

\* key.includes('message') and key.includes('load'), case-sensitive
IncludesMessage == {"messageCreateWithLocal", "messageCreateWithSilent",
                    "messageCreateWithCached"}
IncludesLoad    == {"loadMessagesSuccess", "loadMessagesSuccessWithCached"}

DefaultInjectionResults ==
    [k \in Methods |-> [tested |-> FALSE, works |-> FALSE]]

\* result.tested && result.works && key.includes('message') ||
\* key.includes('load'); the sort on equal notification counts keeps the order
getBestInjectionMethod(results) ==
    LET pass(k) == \/ /\ results[k].tested
                      /\ results[k].works
                      /\ k \in IncludesMessage
                   \/ k \in IncludesLoad
        idx == {i \in 1..Len(MethodOrder) : pass(MethodOrder[i])}
    IN  IF idx = {} THEN "basicMessageCreate"
        ELSE MethodOrder[CHOOSE i \in idx : \A j \in idx : i <= j]

\* the event injectMessage dispatches for message m
InjectEvent(v, results, m) ==
    IF v = "v3.2.0" /\ getBestInjectionMethod(results) \in IncludesLoad
    THEN Ev("LOAD_MESSAGES_SUCCESS", m.channel_id, NoId, {}, <<m>>)
    ELSE Ev("MESSAGE_CREATE", m.channel_id, NoId, {}, <<m>>)

----------------------------------------------------------------------------
(* Pending setTimeout callbacks.  A callback is identified by what it will  *)
(* do; the delays only order callbacks and are not kept.  The callbacks     *)
(* that reinjectMessagesForChannel schedules at index * 50 ms are one       *)
(* "inject" entry holding the messages still to come, in order.             *)

Timer(kind, channelId, msgs, force) ==
    [kind |-> kind, channelId |-> channelId, msgs |-> msgs, force |-> force]

InjectTimer(msgs, silent) == Timer("inject", Null, msgs, silent)
ReinjectTimer(c, force)   == Timer("reinject", c, <<>>, force)
AckTimer(c, m)            == Timer("ack", c, <<m>>, FALSE)
UpdateTimer(c, m)         == Timer("update", c, <<m>>, FALSE)
StartupTimer              == Timer("startup", Null, <<>>, FALSE)

----------------------------------------------------------------------------
(* Dispatch interceptor: before('dispatch', FluxDispatcher, ...) *)

Find(l, id) == {i \in 1..Len(l) : l[i].id = id}

\* messages.find(m => m.id === messageId)
FindFirst(l, id) == l[CHOOSE i \in Find(l, id) : \A j \in Find(l, id) : i <= j]

DeleteMatches(store, ev) ==
    /\ ev.type = "MESSAGE_DELETE"
    /\ ev.channelId # Null
    /\ Has(store, ev.channelId)
    /\ Find(store[ev.channelId], ev.id) # {}

\* faulty variant: every targeted id has to be a stored one
BulkMatchesAll(store, ev) ==
    /\ ev.type = "MESSAGE_DELETE_BULK"
    /\ ev.channelId # Null
    /\ Has(store, ev.channelId)
    /\ ev.ids \subseteq Ids(store[ev.channelId])

BulkMatches(store, ev) ==
    /\ ev.type = "MESSAGE_DELETE_BULK"
    /\ ev.channelId # Null
    /\ Has(store, ev.channelId)
    /\ Ids(store[ev.channelId]) \cap ev.ids # {}

\* the interceptor callback throws a TypeError: messages.some calls
\* ids.includes for the first stored message and a number or a plain object
\* has no such method
InterceptThrows(prevent, store, ev) ==
    /\ prevent
    /\ ev.type = "MESSAGE_DELETE_BULK"
    /\ ev.channelId # Null
    /\ Has(store, ev.channelId)
    /\ store[ev.channelId] # <<>>
    /\ ev.idsType \in {"number", "object"}

\* faulty variant: every deletion is replaced, whatever it targets and
\* whether or not deletion prevention is on
InterceptArgAnyDeletion(prevent, store, ev) ==
    IF ev.type \in {"MESSAGE_DELETE", "MESSAGE_DELETE_BULK"}
    THEN NOOP ELSE ev

\* faulty variant: the event is never replaced
InterceptArgUntouched(prevent, store, ev) == ev

\* the event handed on to the host's own handling (args[0])
InterceptArg(prevent, store, ev) ==
    IF prevent /\ (DeleteMatches(store, ev) \/ BulkMatches(store, ev))
    THEN NOOP ELSE ev

LoadTypes32   == {"LOAD_MESSAGES_SUCCESS", "LOAD_MESSAGES",
                  "LOCAL_MESSAGES_LOADED"}
GlobalTypes32 == {"CHANNEL_UPDATES", "CACHE_LOADED", "OVERLAY_INITIALIZE",
                  "CONNECTION_OPEN"}

\* the timeouts the interceptor of settings.tsx schedules for ev
InterceptTimers32(prevent, store, selected, ev) ==
    (IF prevent /\ DeleteMatches(store, ev)
     THEN {InjectTimer(<<FindFirst(store[ev.channelId], ev.id)>>, FALSE)}
     ELSE {})
    \cup
    (IF prevent /\ BulkMatches(store, ev)
     THEN {ReinjectTimer(ev.channelId, FALSE)} ELSE {})
    \cup
    (IF /\ ev.type \in {"CHANNEL_SELECT"} \cup LoadTypes32
        /\ ev.channelId # Null
        /\ Has(store, ev.channelId)
     THEN {ReinjectTimer(ev.channelId, FALSE)} ELSE {})
    \cup
    (IF /\ ev.type = "MESSAGE_UPDATE"
        /\ ev.channelId # Null
        /\ ev.id # NoId
        /\ Has(store, ev.channelId)
        /\ Find(store[ev.channelId], ev.id) = {}
     THEN {ReinjectTimer(ev.channelId, FALSE)} ELSE {})
    \cup
    (IF /\ ev.type \in GlobalTypes32
        /\ selected # Null
        /\ Has(store, selected)
     THEN {ReinjectTimer(selected, FALSE)} ELSE {})

\* faulty variant: a reconnect reasserts whether or not startup is complete
InterceptTimers103Eager(prevent, store, startupComplete, ev) ==
    (IF prevent /\ DeleteMatches(store, ev)
     THEN {InjectTimer(<<FindFirst(store[ev.channelId], ev.id)>>, TRUE)}
     ELSE {})
    \cup
    (IF prevent /\ BulkMatches(store, ev)
     THEN {ReinjectTimer(ev.channelId, TRUE)} ELSE {})
    \cup
    (IF /\ ev.type = "LOAD_MESSAGES_SUCCESS"
        /\ ev.channelId # Null
        /\ Has(store, ev.channelId)
     THEN {ReinjectTimer(ev.channelId, FALSE)} ELSE {})
    \cup
    (IF ev.type = "CONNECTION_OPEN"
     THEN {ReinjectTimer(c, TRUE) : c \in DOMAIN store} ELSE {})

\* the timeouts the interceptor of index.ts (v1.0.3) schedules for ev
InterceptTimers103(prevent, store, startupComplete, ev) ==
    (IF prevent /\ DeleteMatches(store, ev)
     THEN {InjectTimer(<<FindFirst(store[ev.channelId], ev.id)>>, TRUE)}
     ELSE {})
    \cup
    (IF prevent /\ BulkMatches(store, ev)
     THEN {ReinjectTimer(ev.channelId, TRUE)} ELSE {})
    \cup
    (IF /\ ev.type = "LOAD_MESSAGES_SUCCESS"
        /\ ev.channelId # Null
        /\ Has(store, ev.channelId)
     THEN {ReinjectTimer(ev.channelId, FALSE)} ELSE {})
    \cup
    (IF ev.type = "CONNECTION_OPEN" /\ startupComplete
     THEN {ReinjectTimer(c, TRUE) : c \in DOMAIN store} ELSE {})

\* TRUE when an installed interceptor looks at events
Intercepting == unpatches > 0 /\ enabled

\* what a dispatch of ev, by the host or by the plugin, hands to the host
\* while the store is `store`
Delivered(store, ev) ==
    IF Intercepting
    THEN InterceptArg(preventMessageDeletion, store, ev)
    ELSE ev

\* the timeouts a dispatch of ev makes the interceptor schedule
Scheduled(store, ev) ==
    IF ~Intercepting THEN {}
    ELSE IF variant = "v3.2.0"
         THEN InterceptTimers32(preventMessageDeletion, store,
                                selectedChannel, ev)
         ELSE InterceptTimers103(preventMessageDeletion, store,
                                 isStartupComplete, ev)

----------------------------------------------------------------------------
(* The body of a fabricated message: content, timestamp and embed *)

\* the limits the validators write as literals
CONTENT_MAX     == 2000
TITLE_MAX       == 256
DESCRIPTION_MAX == 4096
FOOTER_MAX      == 2048
AUTHOR_MAX      == 256
FIELDS_MAX      == 25
FIELD_NAME_MAX  == 256
FIELD_VALUE_MAX == 1024

\* how far beyond its limit a drawn text or list goes
MaxExcess == 1

\* JavaScript values carry their type.  A text that is only cut and measured
\* is written by its length, a text that is parsed by its characters.
Undefined    == [is |-> "undefined"]
Str(n)       == [is |-> "string", len |-> n]
StrOf(chars) == [is |-> "string", len |-> Len(chars), chars |-> chars]
Num(n)       == [is |-> "number", num |-> n]
Arr(items)   == [is |-> "array", items |-> items]
NaN          == -1

\* the truthiness test of `if (x)` and `x && ...`
Truthy(v) ==
    CASE v.is = "undefined" -> FALSE
      [] v.is = "string"    -> v.len > 0
      [] v.is = "number"    -> v.num # 0
      [] OTHER              -> TRUE

\* faulty variant: nothing is cut
substringWhole(s, n) == s

\* s.substring(0, n)
substring(s, n) == IF s.len > n THEN Str(n) ELSE s

HexValue(ch) ==
    CASE ch = "0" -> 0  [] ch = "1" -> 1  [] ch = "2" -> 2  [] ch = "3" -> 3
      [] ch = "4" -> 4  [] ch = "5" -> 5  [] ch = "6" -> 6  [] ch = "7" -> 7
      [] ch = "8" -> 8  [] ch = "9" -> 9  [] ch = "A" -> 10 [] ch = "B" -> 11
      [] ch = "C" -> 12 [] ch = "D" -> 13 [] ch = "E" -> 14 [] ch = "F" -> 15
      [] OTHER -> NaN

\* the value of the longest run of leading digits of the radix, from acc on
RECURSIVE ParseDigits(_, _, _, _)
ParseDigits(chars, radix, acc, seen) ==
    IF chars # <<>> /\ HexValue(Head(chars)) # NaN
                    /\ HexValue(Head(chars)) < radix
    THEN ParseDigits(Tail(chars), radix, acc * radix + HexValue(Head(chars)),
                     TRUE)
    ELSE IF seen THEN acc ELSE NaN

\* parseInt(str, 16): an optional 0x, then the leading hexadecimal digits
parseInt16(chars) ==
    IF Len(chars) >= 2 /\ SubSeq(chars, 1, 2) = <<"0", "x">>
    THEN ParseDigits(SubSeq(chars, 3, Len(chars)), 16, 0, FALSE)
    ELSE ParseDigits(chars, 16, 0, FALSE)

\* Number(str) for the texts drawn here: a run of decimal digits or nothing
ToNumber(chars) ==
    IF chars # <<>> /\ \A i \in 1..Len(chars) : chars[i] \in Digits
    THEN ParseDigits(chars, 10, 0, FALSE) ELSE NaN

\* parseColor: a number as it is, "#RRGGBB" and "0x..." as hexadecimal, a
\* decimal text as its number, anything else undefined
parseColor(color) ==
    IF color.is = "number" THEN color
    ELSE IF color.is # "string" THEN Undefined
    ELSE LET str == Trim(color.chars)
             n   == IF str # <<>> /\ Head(str) = "#"
                    THEN parseInt16(Tail(str))
                    ELSE IF Len(str) >= 2 /\ SubSeq(str, 1, 2) = <<"0", "x">>
                    THEN parseInt16(str)
                    ELSE ToNumber(str)
         IN  IF n = NaN THEN Undefined ELSE Num(n)

\* a timestamp text: the instant it denotes and the way it is written.
\* "iso" is the form toISOString produces, "offset" another ISO 8601 spelling
\* of the same instant, "garbage" a text Date cannot parse.
TimeText(form, instant) == [is |-> "string", len |-> 1, form |-> form,
                            instant |-> instant]

EmptyTime == [is |-> "string", len |-> 0, form |-> "garbage", instant |-> 0]

\* new Date(text).getTime()
DateParse(ts) == IF ts.form \in {"iso", "offset"} THEN ts.instant ELSE NaN

\* new Date(instant).toISOString()
toISOString(instant) == TimeText("iso", instant)

\* validateTimestamp at the clock value t
validateTimestamp(timestamp, t) ==
    IF ~Truthy(timestamp) THEN toISOString(t)
    ELSE IF DateParse(timestamp) = NaN THEN toISOString(t)
    ELSE toISOString(DateParse(timestamp))

\* an embed object; a key the caller left out is Undefined.  Of the keys the
\* validators read, url, timestamp, image, thumbnail and provider are left
\* out of the model.
Embed(title, description, color, footer, author, fields) ==
    [is |-> "object", title |-> title, description |-> description,
     color |-> color, footer |-> footer, author |-> author,
     fields |-> fields]

Footer(text)  == [is |-> "object", text |-> text]
Author(name)  == [is |-> "object", name |-> name]
Field(name, value) == [is |-> "object", name |-> name, value |-> value]

\* a text kept when it is a non-empty string, cut to n
CopyText(v, n) ==
    IF Truthy(v) /\ v.is = "string" THEN substring(v, n) ELSE Undefined

\* slice(0, n)
slice(items, n) == IF Len(items) > n THEN SubSeq(items, 1, n) ELSE items

\* the map step of the fields: null for an element that is no object or
\* lacks a name or a value
ValidField(field) ==
    IF field.is # "object" THEN Undefined
    ELSE IF ~Truthy(field.name) \/ ~Truthy(field.value) THEN Undefined
    ELSE Field(substring(field.name, FIELD_NAME_MAX),
               substring(field.value, FIELD_VALUE_MAX))

\* filter(Boolean)
RECURSIVE FilterBoolean(_)
FilterBoolean(items) ==
    IF items = <<>> THEN <<>>
    ELSE IF Truthy(Head(items))
         THEN <<Head(items)>> \o FilterBoolean(Tail(items))
         ELSE FilterBoolean(Tail(items))

ValidFields(fields) ==
    IF Truthy(fields) /\ fields.is = "array"
    THEN LET validFields ==
                 FilterBoolean([i \in 1..Len(slice(fields.items, FIELDS_MAX))
                                  |-> ValidField(slice(fields.items,
                                                       FIELDS_MAX)[i])])
         IN  IF Len(validFields) > 0 THEN Arr(validFields) ELSE Undefined
    ELSE Undefined

\* Object.keys(validEmbed).length > 1: a key besides type was set
HasKeys(e) ==
    \E v \in {e.title, e.description, e.color, e.footer, e.author, e.fields} :
        v.is # "undefined"

\* faulty variant: an embed whose fields are no array is rejected whole
validateEmbedStrict(embed) ==
    IF ~Truthy(embed) \/ embed.is # "object" THEN Undefined
    ELSE IF Truthy(embed.fields) /\ embed.fields.is # "array" THEN Undefined
    ELSE LET validEmbed ==
                 Embed(CopyText(embed.title, TITLE_MAX),
                       CopyText(embed.description, DESCRIPTION_MAX),
                       Undefined, Undefined, Undefined, Undefined)
         IN  IF HasKeys(validEmbed) THEN validEmbed ELSE Undefined

\* validateEmbed of settings.tsx
validateEmbed(embed) ==
    IF ~Truthy(embed) \/ embed.is # "object" THEN Undefined
    ELSE LET validEmbed ==
                 Embed(CopyText(embed.title, TITLE_MAX),
                       CopyText(embed.description, DESCRIPTION_MAX),
                       IF embed.color.is = "number" THEN embed.color
                       ELSE Undefined,
                       IF Truthy(embed.footer) /\ embed.footer.is = "object"
                       THEN Footer(CopyText(embed.footer.text, FOOTER_MAX))
                       ELSE Undefined,
                       IF Truthy(embed.author) /\ embed.author.is = "object"
                       THEN Author(CopyText(embed.author.name, AUTHOR_MAX))
                       ELSE Undefined,
                       ValidFields(embed.fields))
         IN  IF HasKeys(validEmbed) THEN validEmbed ELSE Undefined

\* validateEmbed of index.ts: title and description only
validateEmbedBasic(embed) ==
    IF ~Truthy(embed) \/ embed.is # "object" THEN Undefined
    ELSE LET validEmbed ==
                 Embed(CopyText(embed.title, TITLE_MAX),
                       CopyText(embed.description, DESCRIPTION_MAX),
                       Undefined, Undefined, Undefined, Undefined)
         IN  IF HasKeys(validEmbed) THEN validEmbed ELSE Undefined

\* the options of a call that shape the body
BodyOptions(content, timestamp, embed) ==
    [content |-> content, timestamp |-> timestamp, embed |-> embed]

NoBodyOptions == BodyOptions(Undefined, Undefined, Undefined)

\* content, timestamp and embeds as createMessageObject sets them
createMessageBody(v, o, t) ==
    LET validEmbed == IF v = "v3.2.0" THEN validateEmbed(o.embed)
                      ELSE validateEmbedBasic(o.embed)
    IN  [content   |-> substring(IF Truthy(o.content) THEN o.content
                                 ELSE Str(0), CONTENT_MAX),
         timestamp |-> validateTimestamp(o.timestamp, t),
         embeds    |-> IF Truthy(validEmbed) THEN <<validEmbed>> ELSE <<>>]

NoBody == [content |-> Str(0), timestamp |-> Undefined, embeds |-> <<>>]

\* the options fakeMessage hands to createMessageObject: index.ts passes no
\* timestamp
fakeMessageBody(v, o, t) ==
    createMessageBody(v, IF v = "v3.2.0" THEN o
                         ELSE [o EXCEPT !.timestamp = Undefined], t)

----------------------------------------------------------------------------
(* Observation of the last step *)

\* the options object of a fakeMessage call
CallOptions(from, target, channelId, persistent, messageId) ==
    [fromUserId |-> from, targetUserId |-> target, channelId |-> channelId,
     persistent |-> persistent, messageId |-> messageId]

NoOptions == CallOptions(Absent, Absent, Null, FALSE, NoId)

\* the fields of a dispatched event an observer keeps
About(ev) == [type |-> ev.type, channelId |-> ev.channelId, id |-> ev.id,
              ids |-> ev.ids]

NoEvent == [type |-> "", channelId |-> Null, id |-> NoId, ids |-> {}]

Obs(kind) ==
    [kind      |-> kind,      \* the operation that ran
     result    |-> "none",    \* "true" / "false" for a returned boolean
     why       |-> "",        \* the notice shown with a failure
     delivered |-> "",        \* what the host's own handling received:
                              \* "same" or the type of the replacement
     injected  |-> <<>>,      \* the message handed to injectMessage
     options   |-> NoOptions, \* the options of the fakeMessage call
     event     |-> NoEvent,   \* the event the host or injectMessage
                              \* dispatched
     channel   |-> Null,      \* the channel argument of the operation
     request   |-> NoBodyOptions, \* the options a body was built from
     body      |-> NoBody]    \* the body built

\* how the event handed to the host compares with the dispatched one
Outcome(store, ev) ==
    IF Delivered(store, ev) = ev THEN "same" ELSE Delivered(store, ev).type

----------------------------------------------------------------------------
(* Initial state: module initialisation, storage as a previous session      *)
(* left it                                                                  *)

StartNow == TickMs

PriorMessage(c, r) == JsonMessage(createMessageObject(c, U456, NoId, 1, r))

PriorStores ==
    { <<>>,
      [c \in {"c1"} |-> <<PriorMessage("c1", 0)>>],
      [c \in {"c1"} |-> <<PriorMessage("c1", 0), PriorMessage("c1", 1)>>],
      [c \in {"c1", "c2"} |-> <<PriorMessage(c, 0)>>] }

\* tested counts the methods a runParameterTests call has gone through
IdleCall == [pc |-> "idle", options |-> NoOptions, message |-> <<>>,
             tested |-> 0]

Init ==
    /\ variant \in Variants
    /\ persistentMessages \in PriorStores
    /\ injectionResults = DefaultInjectionResults
    /\ enabled = TRUE
    /\ preventMessageDeletion = TRUE
    /\ autoInjectOnStartup = TRUE
    /\ unpatches = 0
    /\ channelMonitorInterval = FALSE
    /\ currentChannelId = Null
    /\ selectedChannel = Null
    /\ api = FALSE
    /\ loadPc = "init"
    /\ unloadedAt = "no"
    /\ cleared = {}
    /\ timers = {}
    /\ calls = [p \in Procs |-> IdleCall]
    /\ now = StartNow
    /\ lastReinjectTime = [c \in Channels |-> 0]
    /\ isStartupComplete = FALSE
    /\ out = Obs("init")

----------------------------------------------------------------------------
(* injectMessage(message, silent): the timeouts it leaves behind.  The      *)
(* interceptor sees the dispatch first; v1.0.3 then schedules an            *)
(* acknowledgement (silent only) and a channel update unless dispatch threw *)

InjectTimers(store, m, silent, throws) ==
    Scheduled(store, InjectEvent(variant, injectionResults, m))
    \cup
    (IF variant = "v1.0.3" /\ ~throws
     THEN (IF silent THEN {AckTimer(m.channel_id, m)} ELSE {})
          \cup {UpdateTimer(m.channel_id, m)}
     ELSE {})

----------------------------------------------------------------------------
(* fakeMessage *)

ExplicitId == <<0, 7>>

\* sender, target and channel of the calls the model makes
Addressing ==
    { <<U789, T123, Null>>,      \* numeric pair, the DM channel is known
      <<U789, TPad, Null>>,      \* numeric pair, the DM channel is not known
      <<U789, U4x, Null>>,       \* malformed target, no channel given
      <<U789, U4x, "c2">>,       \* malformed target beside a channel
      <<U789, Absent, "c2">>,    \* a channel and no target
      <<U789, Absent, Null>>,    \* neither target nor channel
      <<UAbc, T123, Null>>,      \* malformed sender
      <<UAbc, Absent, "c2">> }   \* malformed sender beside a channel

CallInputs ==
    { CallOptions(a[1], a[2], a[3], TRUE, i) :
        a \in Addressing, i \in {NoId, ExplicitId} }
    \cup
    { CallOptions(a[1], a[2], a[3], FALSE, NoId) : a \in Addressing }

Return(o, result, why) ==
    [Obs("fakeMessage") EXCEPT !.result = result, !.why = why, !.options = o]

\* fakeMessage up to its first suspension: validation, channel lookup and,
\* when the channel is known, createMessageObject; options.messageId is not
\* handed to createMessageObject
FakeMessageCall(p, o) ==
    /\ api
    /\ calls[p].pc = "idle"
    /\ IF ~validateUserId(o.fromUserId)
       THEN /\ out' = Return(o, "false", "invalid sender")
            /\ UNCHANGED <<calls, timers>>
       ELSE IF /\ o.channelId = Null
               /\ o.targetUserId # Absent
               /\ ~validateUserId(o.targetUserId)
       THEN /\ out' = Return(o, "false", "invalid target")
            /\ UNCHANGED <<calls, timers>>
       ELSE IF o.channelId = Null /\ o.targetUserId = Absent
       THEN /\ out' = Return(o, "false", "no channel")
            /\ UNCHANGED <<calls, timers>>
       ELSE IF o.channelId = Null /\ getDMChannelId(o.targetUserId) = Null
       THEN \* ensureDMChannel dispatches CHANNEL_SELECT and waits 100 ms
            /\ calls' = [calls EXCEPT ![p] =
                   [pc |-> "ensureDelay", options |-> o, message |-> <<>>,
                    tested |-> 0]]
            /\ timers' = timers \cup
                   Scheduled(persistentMessages,
                             Ev("CHANNEL_SELECT", Null, NoId, {}, <<>>))
            /\ out' = Obs("fakeMessage")
       ELSE \E r \in 0..(MaxRand - 1) :
            LET ch == IF o.channelId # Null THEN o.channelId
                      ELSE getDMChannelId(o.targetUserId)
            IN  /\ calls' = [calls EXCEPT ![p] =
                       [pc |-> "built", options |-> o,
                        message |-> <<createMessageObject(ch, o.fromUserId,
                                                          NoId, now, r)>>,
                        tested |-> 0]]
                /\ out' = Obs("fakeMessage")
                /\ UNCHANGED timers
    /\ UNCHANGED <<variant, persistentMessages, injectionResults, enabled,
                   preventMessageDeletion, autoInjectOnStartup, unpatches,
                   channelMonitorInterval, currentChannelId, selectedChannel,
                   api, loadPc, unloadedAt, cleared, now, lastReinjectTime,
                   isStartupComplete>>

\* ensureDMChannel after its delay: the lookup again; the host may have
\* opened the channel meanwhile
FakeMessageRetry(p, found) ==
    /\ calls[p].pc = "ensureDelay"
    /\ IF found = Null
       THEN /\ calls' = [calls EXCEPT ![p] = IdleCall]
            /\ out' = Return(calls[p].options, "false", "no channel")
       ELSE \E r \in 0..(MaxRand - 1) :
            /\ calls' = [calls EXCEPT ![p].pc = "built",
                   ![p].message =
                       <<createMessageObject(found,
                                             calls[p].options.fromUserId,
                                             NoId, now, r)>>]
            /\ out' = Obs("fakeMessage")
    /\ UNCHANGED <<variant, persistentMessages, injectionResults, enabled,
                   preventMessageDeletion, autoInjectOnStartup, unpatches,
                   channelMonitorInterval, currentChannelId, selectedChannel,
                   api, loadPc, unloadedAt, cleared, timers, now,
                   lastReinjectTime, isStartupComplete>>

\* fakeMessage from the return of createMessageObject to its own return:
\* the append (persistent only), the save and the injection
FakeMessageAppend(p, throws) ==
    /\ calls[p].pc = "built"
    /\ Cardinality(timers) < MaxTimers
    /\ LET m     == calls[p].message[1]
           c     == m.channel_id
           store == IF calls[p].options.persistent
                    THEN StoreAppend(variant, persistentMessages, c, m)
                    ELSE persistentMessages
       IN  /\ Has(store, c) => Len(store[c]) <= MaxLen
           /\ persistentMessages' = store
           /\ cleared' = IF calls[p].options.persistent
                         THEN cleared \ {c} ELSE cleared
           /\ timers' = timers \cup InjectTimers(store, m, FALSE, throws)
           /\ out' = [Obs("fakeMessage") EXCEPT
                        !.result = IF throws THEN "false" ELSE "true",
                        !.delivered =
                            Outcome(store, InjectEvent(variant,
                                                injectionResults, m)),
                        !.injected = <<m>>,
                        !.event =
                            About(InjectEvent(variant, injectionResults, m)),
                        !.options = calls[p].options]
    /\ calls' = [calls EXCEPT ![p] = IdleCall]
    /\ UNCHANGED <<variant, injectionResults, enabled,
                   preventMessageDeletion, autoInjectOnStartup, unpatches,
                   channelMonitorInterval, currentChannelId, selectedChannel,
                   api, loadPc, unloadedAt, now, lastReinjectTime,
                   isStartupComplete>>

\* quickTest(targetUserId, fromUserId): a persistent fakeMessage call
quickTest(p, target, from) ==
    FakeMessageCall(p, CallOptions(from, target, Null, TRUE, NoId))

----------------------------------------------------------------------------
(* runParameterTests, settings.tsx only *)

\* the event testInjectionMethod / testAckMethod dispatches for a method
TestEvent(method, c) ==
    Ev(IF method \in IncludesLoad THEN "LOAD_MESSAGES_SUCCESS"
       ELSE IF method \in {"basicMessageCreate"} \cup IncludesMessage
            THEN "MESSAGE_CREATE"
       ELSE "CHANNEL_ACK", c, NoId, {}, <<>>)

\* createMessageObject for the test message: it throws on a sender id that
\* is not numeric, and runParameterTests has no handler around it
TestsBuild(p, o, c) ==
    IF ~validateUserId(o.fromUserId)
    THEN /\ calls' = [calls EXCEPT ![p] = IdleCall]
         /\ out' = [Obs("runParameterTests") EXCEPT
                      !.result = "threw", !.why = "Invalid user ID",
                      !.options = o]
    ELSE \E r \in 0..(MaxRand - 1) :
         /\ calls' = [calls EXCEPT ![p] =
                [pc |-> "testing", options |-> o,
                 message |-> <<createMessageObject(c, o.fromUserId, NoId,
                                                   now, r)>>,
                 tested |-> 0]]
         /\ out' = Obs("runParameterTests")

\* runParameterTests up to its first delay: ensureDMChannel (the target id
\* is not validated) and createMessageObject
RunParameterTestsCall(p, target, from) ==
    /\ variant = "v3.2.0"
    /\ api
    /\ calls[p].pc = "idle"
    /\ Cardinality(timers) < MaxTimers
    /\ LET o == CallOptions(from, target, Null, FALSE, NoId)
       IN  IF getDMChannelId(target) = Null
           THEN /\ calls' = [calls EXCEPT ![p] =
                       [pc |-> "testsDelay", options |-> o,
                        message |-> <<>>, tested |-> 0]]
                /\ timers' = timers \cup
                       Scheduled(persistentMessages,
                                 Ev("CHANNEL_SELECT", Null, NoId, {}, <<>>))
                /\ out' = Obs("runParameterTests")
           ELSE /\ TestsBuild(p, o, getDMChannelId(target))
                /\ UNCHANGED timers
    /\ UNCHANGED <<variant, persistentMessages, injectionResults, enabled,
                   preventMessageDeletion, autoInjectOnStartup, unpatches,
                   channelMonitorInterval, currentChannelId, selectedChannel,
                   api, loadPc, unloadedAt, cleared, now, lastReinjectTime,
                   isStartupComplete>>

\* ensureDMChannel after its delay
RunParameterTestsRetry(p, found) ==
    /\ calls[p].pc = "testsDelay"
    /\ IF found = Null
       THEN /\ calls' = [calls EXCEPT ![p] = IdleCall]
            /\ out' = [Obs("runParameterTests") EXCEPT
                         !.why = "no channel",
                         !.options = calls[p].options]
       ELSE TestsBuild(p, calls[p].options, found)
    /\ UNCHANGED <<variant, persistentMessages, injectionResults, enabled,
                   preventMessageDeletion, autoInjectOnStartup, unpatches,
                   channelMonitorInterval, currentChannelId, selectedChannel,
                   api, loadPc, unloadedAt, cleared, timers, now,
                   lastReinjectTime, isStartupComplete>>

\* the methods whose test dispatch threw
Failed(results) == {k \in Methods : results[k].tested /\ ~results[k].works}

\* one round of the two test loops: the dispatch of the next method, its
\* result written to injectionResults, then the delay
RunParameterTestsStep(p, throws) ==
    /\ calls[p].pc = "testing"
    /\ calls[p].tested < Len(MethodOrder)
    /\ throws => Cardinality(Failed(injectionResults)) < MaxFailures
    /\ LET method == MethodOrder[calls[p].tested + 1]
           ev     == TestEvent(method, calls[p].message[1].channel_id)
       IN  /\ timers' = timers \cup Scheduled(persistentMessages, ev)
           /\ injectionResults' =
                  [injectionResults EXCEPT
                     ![method] = [tested |-> TRUE, works |-> ~throws]]
           /\ out' = [Obs("runParameterTests") EXCEPT
                        !.delivered = Outcome(persistentMessages, ev)]
    /\ calls' = [calls EXCEPT ![p].tested = @ + 1]
    /\ UNCHANGED <<variant, persistentMessages, enabled,
                   preventMessageDeletion, autoInjectOnStartup, unpatches,
                   channelMonitorInterval, currentChannelId, selectedChannel,
                   api, loadPc, unloadedAt, cleared, now, lastReinjectTime,
                   isStartupComplete>>

\* after the loops: the save and the closing notice
RunParameterTestsFinish(p) ==
    /\ calls[p].pc = "testing"
    /\ calls[p].tested = Len(MethodOrder)
    /\ persistentMessages' = savePersistentMessages(persistentMessages)
    /\ calls' = [calls EXCEPT ![p] = IdleCall]
    /\ out' = [Obs("runParameterTests") EXCEPT
                 !.why = "tests complete", !.options = calls[p].options]
    /\ UNCHANGED <<variant, injectionResults, enabled,
                   preventMessageDeletion, autoInjectOnStartup, unpatches,
                   channelMonitorInterval, currentChannelId, selectedChannel,
                   api, loadPc, unloadedAt, cleared, timers, now,
                   lastReinjectTime, isStartupComplete>>

----------------------------------------------------------------------------
(* Queries *)

\* getAllMessages and getStatus read the store and return what they read
Query(name) ==
    /\ api
    /\ out' = [Obs(name) EXCEPT !.result = "data"]
    /\ UNCHANGED <<variant, persistentMessages, injectionResults, enabled,
                   preventMessageDeletion, autoInjectOnStartup, unpatches,
                   channelMonitorInterval, currentChannelId, selectedChannel,
                   api, loadPc, unloadedAt, cleared, timers, calls, now,
                   lastReinjectTime, isStartupComplete>>

getAllMessages == Query("getAllMessages")

getStatus == Query("getStatus")

----------------------------------------------------------------------------
(* Clear operations *)

\* faulty variant: the list of channel c2 survives
clearAllMessagesKeepOne ==
    /\ api
    /\ persistentMessages' =
           savePersistentMessages([c \in DOMAIN persistentMessages \cap {"c2"}
                                      |-> persistentMessages[c]])
    /\ cleared' = cleared \cup DOMAIN persistentMessages
    /\ out' = Obs("clearAllMessages")
    /\ UNCHANGED <<variant, injectionResults, enabled,
                   preventMessageDeletion, autoInjectOnStartup, unpatches,
                   channelMonitorInterval, currentChannelId, selectedChannel,
                   api, loadPc, unloadedAt, timers, calls, now,
                   lastReinjectTime, isStartupComplete>>

clearAllMessages ==
    /\ api
    /\ persistentMessages' = savePersistentMessages(<<>>)
    /\ cleared' = cleared \cup DOMAIN persistentMessages
    /\ out' = Obs("clearAllMessages")
    /\ UNCHANGED <<variant, injectionResults, enabled,
                   preventMessageDeletion, autoInjectOnStartup, unpatches,
                   channelMonitorInterval, currentChannelId, selectedChannel,
                   api, loadPc, unloadedAt, timers, calls, now,
                   lastReinjectTime, isStartupComplete>>

clearChannelMessages(c) ==
    /\ api
    /\ persistentMessages' =
           IF Has(persistentMessages, c)
           THEN savePersistentMessages(Remove(persistentMessages, c))
           ELSE persistentMessages
    /\ cleared' = cleared \cup ({c} \cap DOMAIN persistentMessages)
    /\ out' = [Obs("clearChannelMessages") EXCEPT !.channel = c]
    /\ UNCHANGED <<variant, injectionResults, enabled,
                   preventMessageDeletion, autoInjectOnStartup, unpatches,
                   channelMonitorInterval, currentChannelId, selectedChannel,
                   api, loadPc, unloadedAt, timers, calls, now,
                   lastReinjectTime, isStartupComplete>>

----------------------------------------------------------------------------
(* Events the host dispatches on its own *)

ForeignId == <<9, 9>>

StoredIds == UNION {Ids(persistentMessages[c]) : c \in DOMAIN persistentMessages}

HostEvents ==
    {Ev("MESSAGE_DELETE", c, i, {}, <<>>) :
        c \in Channels, i \in StoredIds \cup {ForeignId}}
    \cup
    {Ev("MESSAGE_DELETE_BULK", c, NoId, I, <<>>) :
        c \in Channels, I \in (SUBSET (StoredIds \cup {ForeignId})) \ {{}}}
    \cup
    {Ev(t, c, NoId, {}, <<>>) :
        t \in {"CHANNEL_SELECT"} \cup LoadTypes32, c \in Channels}
    \cup
    {Ev("MESSAGE_UPDATE", c, i, {}, <<>>) :
        c \in Channels, i \in StoredIds \cup {ForeignId}}
    \cup
    {Ev(t, Null, NoId, {}, <<>>) : t \in GlobalTypes32 \cup {"TYPING_START"}}

\* FluxDispatcher.dispatch(ev) called by the host: the interceptor looks at
\* the event, then the host handles what is left of it
HostDispatch(ev) ==
    /\ Cardinality(timers) < MaxTimers
    /\ IF Intercepting
          /\ InterceptThrows(preventMessageDeletion, persistentMessages, ev)
       THEN /\ out' = [Obs("host") EXCEPT
                         !.result = "threw",
                         !.why = "TypeError",
                         !.event = About(ev)]
            /\ UNCHANGED <<timers, selectedChannel>>
       ELSE /\ timers' = timers \cup Scheduled(persistentMessages, ev)
            /\ selectedChannel' =
                   IF Delivered(persistentMessages, ev).type
                          = "CHANNEL_SELECT"
                   THEN ev.channelId ELSE selectedChannel
            /\ out' = [Obs("host") EXCEPT
                         !.delivered = Outcome(persistentMessages, ev),
                         !.event = About(ev)]
    /\ UNCHANGED <<variant, persistentMessages, injectionResults, enabled,
                   preventMessageDeletion, autoInjectOnStartup, unpatches,
                   channelMonitorInterval, currentChannelId, api, loadPc,
                   unloadedAt, cleared, calls, now, lastReinjectTime,
                   isStartupComplete>>

----------------------------------------------------------------------------
(* Timer callbacks *)

\* setTimeout(() => injectMessage(message, silent), ...): the first message
\* of the entry is injected, the rest stays pending
FireInject(t, throws) ==
    /\ t \in timers
    /\ t.kind = "inject"
    /\ LET m    == Head(t.msgs)
           rest == IF Len(t.msgs) > 1
                   THEN {InjectTimer(Tail(t.msgs), t.force)} ELSE {}
       IN  /\ timers' = ((timers \ {t}) \cup rest) \cup
                        InjectTimers(persistentMessages, m, t.force, throws)
           /\ out' = [Obs("inject") EXCEPT
                        !.result = IF throws THEN "false" ELSE "true",
                        !.delivered =
                            Outcome(persistentMessages,
                                InjectEvent(variant, injectionResults, m)),
                        !.event =
                            About(InjectEvent(variant, injectionResults, m)),
                        !.injected = <<m>>]
    /\ UNCHANGED <<variant, persistentMessages, injectionResults, enabled,
                   preventMessageDeletion, autoInjectOnStartup, unpatches,
                   channelMonitorInterval, currentChannelId, selectedChannel,
                   api, loadPc, unloadedAt, cleared, calls, now, lastReinjectTime,
                   isStartupComplete>>

\* faulty variant: no reassertion is ever skipped
DebouncedNever(force, last, t) == FALSE

\* v1.0.3: the debounce test of reinjectMessagesForChannel
Debounced(force, last, t) ==
    ~force /\ last # 0 /\ (t - last) < REINJECT_DEBOUNCE_MS

\* TRUE when reinjectMessagesForChannel(c, force) goes on to schedule
Reinjects(c, force) ==
    /\ Has(persistentMessages, c)
    /\ variant = "v1.0.3" => ~Debounced(force, lastReinjectTime[c], now)

\* the timeouts reinjectMessagesForChannel(c, force) schedules
ReinjectTimers(c, force) ==
    IF ~Reinjects(c, force) \/ persistentMessages[c] = <<>> THEN {}
    ELSE {InjectTimer(persistentMessages[c], variant = "v1.0.3")}
         \cup
         (IF variant = "v1.0.3"
          THEN {AckTimer(c, persistentMessages[c][Len(persistentMessages[c])])}
          ELSE {})

\* setTimeout(() => reinjectMessagesForChannel(channelId, force), ...)
FireReinject(t) ==
    /\ t \in timers
    /\ t.kind = "reinject"
    /\ timers' = (timers \ {t}) \cup ReinjectTimers(t.channelId, t.force)
    /\ lastReinjectTime' =
           IF variant = "v1.0.3" /\ Reinjects(t.channelId, t.force)
           THEN [lastReinjectTime EXCEPT ![t.channelId] = now]
           ELSE lastReinjectTime
    /\ out' = [Obs("reinject") EXCEPT
                 !.result = IF Reinjects(t.channelId, t.force)
                            THEN "true" ELSE "false",
                 !.channel = t.channelId]
    /\ UNCHANGED <<variant, persistentMessages, injectionResults, enabled,
                   preventMessageDeletion, autoInjectOnStartup, unpatches,
                   channelMonitorInterval, currentChannelId, selectedChannel,
                   api, loadPc, unloadedAt, cleared, calls, now, isStartupComplete>>

\* v1.0.3: acknowledgeMessages dispatches MESSAGE_ACK; updateChannelState
\* dispatches CHANNEL_UPDATES
FireAux(t) ==
    /\ t \in timers
    /\ t.kind \in {"ack", "update"}
    /\ LET ev == Ev(IF t.kind = "ack" THEN "MESSAGE_ACK"
                    ELSE "CHANNEL_UPDATES", t.channelId, t.msgs[1].id, {},
                    <<>>)
       IN  /\ timers' = (timers \ {t}) \cup Scheduled(persistentMessages, ev)
           /\ out' = [Obs(t.kind) EXCEPT
                        !.delivered = Outcome(persistentMessages, ev)]
    /\ UNCHANGED <<variant, persistentMessages, injectionResults, enabled,
                   preventMessageDeletion, autoInjectOnStartup, unpatches,
                   channelMonitorInterval, currentChannelId, selectedChannel,
                   api, loadPc, unloadedAt, cleared, calls, now, lastReinjectTime,
                   isStartupComplete>>

\* v1.0.3: setTimeout(() => { isStartupComplete = true }, 3000)
FireStartup ==
    /\ StartupTimer \in timers
    /\ timers' = timers \ {StartupTimer}
    /\ isStartupComplete' = TRUE
    /\ out' = Obs("startup")
    /\ UNCHANGED <<variant, persistentMessages, injectionResults, enabled,
                   preventMessageDeletion, autoInjectOnStartup, unpatches,
                   channelMonitorInterval, currentChannelId, selectedChannel,
                   api, loadPc, unloadedAt, cleared, calls, now, lastReinjectTime>>

\* faulty variant: every tick reasserts the selected channel, switched to
\* or not
PollTickEveryTime ==
    /\ channelMonitorInterval
    /\ currentChannelId' =
           IF selectedChannel # Null THEN selectedChannel
           ELSE currentChannelId
    /\ timers' = timers \cup
           (IF selectedChannel # Null /\ Has(persistentMessages, selectedChannel)
            THEN {ReinjectTimer(selectedChannel, FALSE)} ELSE {})
    /\ out' = Obs("poll")
    /\ UNCHANGED <<variant, persistentMessages, injectionResults, enabled,
                   preventMessageDeletion, autoInjectOnStartup, unpatches,
                   channelMonitorInterval, selectedChannel, api, loadPc,
                   unloadedAt, cleared, calls, now, lastReinjectTime,
                   isStartupComplete>>

\* the setInterval callback of startChannelMonitoring
PollTick ==
    /\ channelMonitorInterval
    /\ IF selectedChannel # Null /\ selectedChannel # currentChannelId
       THEN /\ currentChannelId' = selectedChannel
            /\ timers' = timers \cup
                   (IF Has(persistentMessages, selectedChannel)
                    THEN {ReinjectTimer(selectedChannel, FALSE)} ELSE {})
       ELSE UNCHANGED <<currentChannelId, timers>>
    /\ out' = Obs("poll")
    /\ UNCHANGED <<variant, persistentMessages, injectionResults, enabled,
                   preventMessageDeletion, autoInjectOnStartup, unpatches,
                   channelMonitorInterval, selectedChannel, api, loadPc,
                   unloadedAt, cleared, calls, now, lastReinjectTime,
                   isStartupComplete>>

----------------------------------------------------------------------------
(* Plugin lifecycle *)

WellFormed(m) ==
    /\ {"id", "channel_id", "author", "timestamp"} \subseteq DOMAIN m
    /\ m.id # NoId

\* faulty variant: a channel whose list filters down to nothing is kept
recoverStorageKeepEmpty(store) ==
    savePersistentMessages([c \in DOMAIN store |->
                               SelectSeq(store[c], WellFormed)])

\* recoverStorage on a store whose values are lists; a value that is not a
\* list is deleted just as a list that filters down to nothing is
recoverStorage(store) ==
    LET keep(l) == SelectSeq(l, WellFormed)
        live    == {c \in DOMAIN store : keep(store[c]) # <<>>}
    IN  savePersistentMessages([c \in live |-> keep(store[c])])

\* onLoad up to `await delay(1000)`
OnLoadStart ==
    /\ loadPc = "init"
    /\ persistentMessages' = recoverStorage(persistentMessages)
    /\ loadPc' = "delay1"
    /\ out' = Obs("onLoad")
    /\ UNCHANGED <<variant, injectionResults, enabled,
                   preventMessageDeletion, autoInjectOnStartup, unpatches,
                   channelMonitorInterval, currentChannelId, selectedChannel,
                   api, unloadedAt, cleared, timers, calls, now, lastReinjectTime,
                   isStartupComplete>>

\* faulty variant: one of the two stores is enough
initModulesEitherStore(channelStore, userStore) == channelStore \/ userStore

\* initModules: `ready = ChannelStore && UserStore`; each argument tells
\* whether findStore found that store
initModules(channelStore, userStore) == channelStore /\ userStore

\* the stores findStore logged no 'Found store' line for
NotFound(channelStore, userStore) ==
    IF channelStore
    THEN (IF userStore THEN "" ELSE "UserStore")
    ELSE (IF userStore THEN "ChannelStore" ELSE "ChannelStore, UserStore")

\* onLoad from initModules to `await delay(2000)`, or to its end when
\* autoInjectOnStartup is off
OnLoadSetup(channelStore, userStore) ==
    /\ loadPc = "delay1"
    /\ IF ~initModules(channelStore, userStore)
       THEN /\ loadPc' = "failed"
            /\ UNCHANGED <<unpatches, channelMonitorInterval, api,
                           isStartupComplete>>
       ELSE /\ unpatches' = unpatches + 1
            /\ channelMonitorInterval' = TRUE
            /\ IF autoInjectOnStartup
               THEN /\ loadPc' = "delay2"
                    /\ UNCHANGED <<api, isStartupComplete>>
               ELSE /\ loadPc' = "done"
                    /\ api' = TRUE
                    /\ isStartupComplete' =
                           IF variant = "v1.0.3" THEN TRUE
                           ELSE isStartupComplete
    /\ out' = [Obs("onLoad") EXCEPT
                 !.why = NotFound(channelStore, userStore)]
    /\ UNCHANGED <<variant, persistentMessages, injectionResults, enabled,
                   preventMessageDeletion, autoInjectOnStartup,
                   currentChannelId, selectedChannel, unloadedAt, cleared, timers,
                   calls, now, lastReinjectTime>>

\* onLoad after `await delay(2000)`: the startup auto-injection
OnLoadFinish ==
    /\ loadPc = "delay2"
    /\ timers' = timers
           \cup {ReinjectTimer(c, variant = "v1.0.3") :
                    c \in DOMAIN persistentMessages}
           \cup (IF variant = "v1.0.3" THEN {StartupTimer} ELSE {})
    /\ api' = TRUE
    /\ loadPc' = "done"
    /\ out' = Obs("onLoad")
    /\ UNCHANGED <<variant, persistentMessages, injectionResults, enabled,
                   preventMessageDeletion, autoInjectOnStartup, unpatches,
                   channelMonitorInterval, currentChannelId, selectedChannel,
                   unloadedAt, cleared, calls, now, lastReinjectTime,
                   isStartupComplete>>

onUnload ==
    /\ loadPc # "init"
    /\ unloadedAt = "no"
    /\ unpatches' = 0
    /\ channelMonitorInterval' = FALSE
    /\ api' = FALSE
    /\ unloadedAt' = loadPc
    /\ out' = Obs("onUnload")
    /\ UNCHANGED <<variant, persistentMessages, injectionResults, enabled,
                   preventMessageDeletion, autoInjectOnStartup,
                   currentChannelId, selectedChannel, loadPc, cleared,
                   timers, calls, now, lastReinjectTime, isStartupComplete>>

----------------------------------------------------------------------------
(* Settings switches and the clock *)

ToggleEnabled ==
    /\ enabled' = ~enabled
    /\ out' = Obs("toggle")
    /\ UNCHANGED <<variant, persistentMessages, injectionResults,
                   preventMessageDeletion, autoInjectOnStartup, unpatches,
                   channelMonitorInterval, currentChannelId, selectedChannel,
                   api, loadPc, unloadedAt, cleared, timers, calls, now,
                   lastReinjectTime, isStartupComplete>>

TogglePreventDeletion ==
    /\ preventMessageDeletion' = ~preventMessageDeletion
    /\ out' = Obs("toggle")
    /\ UNCHANGED <<variant, persistentMessages, injectionResults, enabled,
                   autoInjectOnStartup, unpatches, channelMonitorInterval,
                   currentChannelId, selectedChannel, api, loadPc, unloadedAt, cleared,
                   timers, calls, now, lastReinjectTime, isStartupComplete>>

\* the switch is read once, by onLoad after its first delay
ToggleAutoInject ==
    /\ loadPc \in {"init", "delay1"}
    /\ autoInjectOnStartup' = ~autoInjectOnStartup
    /\ out' = Obs("toggle")
    /\ UNCHANGED <<variant, persistentMessages, injectionResults, enabled,
                   preventMessageDeletion, unpatches, channelMonitorInterval,
                   currentChannelId, selectedChannel, api, loadPc, unloadedAt, cleared,
                   timers, calls, now, lastReinjectTime, isStartupComplete>>

Tick ==
    /\ now < StartNow + MaxTicks * TickMs
    /\ now' = now + TickMs
    /\ out' = Obs("tick")
    /\ UNCHANGED <<variant, persistentMessages, injectionResults, enabled,
                   preventMessageDeletion, autoInjectOnStartup, unpatches,
                   channelMonitorInterval, currentChannelId, selectedChannel,
                   api, loadPc, unloadedAt, cleared, timers, calls, lastReinjectTime,
                   isStartupComplete>>

----------------------------------------------------------------------------
(* Specifications *)

LoadSteps ==
    \/ OnLoadStart
    \/ \E channelStore, userStore \in BOOLEAN :
           OnLoadSetup(channelStore, userStore)
    \/ OnLoadFinish

TimerSteps ==
    \/ \E t \in timers, throws \in BOOLEAN : FireInject(t, throws)
    \/ \E t \in timers : FireReinject(t)
    \/ \E t \in timers : FireAux(t)
    \/ FireStartup

ApiSteps(P) ==
    \/ \E p \in P, o \in CallInputs : FakeMessageCall(p, o)
    \/ \E p \in P, found \in {Null, "c2"} : FakeMessageRetry(p, found)
    \/ \E p \in P, throws \in BOOLEAN : FakeMessageAppend(p, throws)

ClearSteps ==
    \/ clearAllMessages
    \/ \E c \in Channels : clearChannelMessages(c)

\* the API driven by one caller at a time, no host traffic
NextApi ==
    \/ LoadSteps
    \/ ApiSteps({"p1"})
    \/ ClearSteps
    \/ TimerSteps

SpecApi == Init /\ [][NextApi]_vars

\* what a damaged storage file can hold for channel c: messages as an
\* earlier session saved them, and entries that lost a required field
LostTimestamp(c) ==
    [id |-> PriorMessage(c, 0).id, channel_id |-> c,
     author |-> PriorMessage(c, 0).author]

LostId(c) ==
    [channel_id |-> c, author |-> PriorMessage(c, 0).author, timestamp |-> 1]

DamagedEntries(c) ==
    IF c = "c1"
    THEN {PriorMessage(c, 0), PriorMessage(c, 1), LostTimestamp(c), LostId(c)}
    ELSE {PriorMessage(c, 0), LostTimestamp(c)}

DamagedLists(c) == UNION {[1..n -> DamagedEntries(c)] : n \in 0..MaxLen}

\* storage.persistentMessages as onLoad may find it
DamagedStores ==
    UNION {[C -> UNION {DamagedLists(c) : c \in C}] : C \in SUBSET Channels}

InitRecover ==
    /\ variant \in Variants
    /\ persistentMessages \in
           {store \in DamagedStores :
               \A c \in DOMAIN store : store[c] \in DamagedLists(c)}
    /\ injectionResults = DefaultInjectionResults
    /\ enabled = TRUE
    /\ preventMessageDeletion = TRUE
    /\ autoInjectOnStartup = TRUE
    /\ unpatches = 0
    /\ channelMonitorInterval = FALSE
    /\ currentChannelId = Null
    /\ selectedChannel = Null
    /\ api = FALSE
    /\ loadPc = "init"
    /\ unloadedAt = "no"
    /\ cleared = {}
    /\ timers = {}
    /\ calls = [p \in Procs |-> IdleCall]
    /\ now = StartNow
    /\ lastReinjectTime = [c \in Channels |-> 0]
    /\ isStartupComplete = FALSE
    /\ out = Obs("init")

\* onLoad over a damaged storage file, and the startup injection after it
NextRecover ==
    \/ LoadSteps
    \/ TimerSteps

SpecRecover == InitRecover /\ [][NextRecover]_vars

\* the arguments of the quickTest and runParameterTests calls the model
\* makes: target, then sender
TestPairs ==
    { <<T123, U789>>,      \* numeric pair, the DM channel is known
      <<TPad, U789>>,      \* numeric pair, the DM channel is not known
      <<U4x, U789>>,       \* malformed target
      <<T123, UAbc>> }     \* malformed sender

TestSteps(P) ==
    \/ \E p \in P, a \in TestPairs : RunParameterTestsCall(p, a[1], a[2])
    \/ \E p \in P, found \in {Null, "c2"} : RunParameterTestsRetry(p, found)
    \/ \E p \in P, throws \in BOOLEAN : RunParameterTestsStep(p, throws)
    \/ \E p \in P : RunParameterTestsFinish(p)

QuickSteps(P) ==
    \/ \E p \in P, a \in TestPairs : quickTest(p, a[1], a[2])
    \/ \E p \in P, found \in {Null, "c2"} : FakeMessageRetry(p, found)
    \/ \E p \in P, throws \in BOOLEAN : FakeMessageAppend(p, throws)

\* every operation of window.__MESSAGE_FAKER__ a console user can call,
\* one call at a time
NextBoundary ==
    \/ LoadSteps
    \/ QuickSteps({"p1"})
    \/ TestSteps({"p1"})
    \/ ClearSteps
    \/ getAllMessages
    \/ getStatus
    \/ TimerSteps

SpecBoundary == Init /\ [][NextBoundary]_vars

\* the callback of one pending timeout
Fire(t) ==
    \/ \E throws \in BOOLEAN : FireInject(t, throws)
    \/ FireReinject(t)
    \/ FireAux(t)
    \/ t = StartupTimer /\ FireStartup

\* every timeout the plugin can have pending over the initial stores
PriorMessages == UNION {Stored(store) : store \in PriorStores}

PriorChains ==
    UNION {UNION {{SubSeq(store[c], i, Len(store[c])) :
                      i \in 1..Len(store[c])} :
              c \in DOMAIN store} : store \in PriorStores}

TimerUniverse ==
    {InjectTimer(l, silent) : l \in PriorChains \ {<<>>}, silent \in BOOLEAN}
    \cup {ReinjectTimer(c, force) : c \in Channels, force \in BOOLEAN}
    \cup {AckTimer(m.channel_id, m) : m \in PriorMessages}
    \cup {UpdateTimer(m.channel_id, m) : m \in PriorMessages}
    \cup {StartupTimer}

\* the host's event loop runs every pending timeout and interval callback,
\* and resumes onLoad when its delay has passed
EventLoop ==
    /\ \A t \in TimerUniverse : WF_vars(Fire(t))
    /\ WF_vars(LoadSteps)
    /\ WF_vars(PollTick)

\* the events the reconciliation loop is specified to react to, and one it
\* ignores; the user only ever opens channel c1
LoopEvents ==
    {ev \in HostEvents :
        /\ ev.type \in {"MESSAGE_DELETE", "MESSAGE_DELETE_BULK",
                        "CHANNEL_SELECT", "LOAD_MESSAGES_SUCCESS",
                        "CONNECTION_OPEN", "TYPING_START"}
        /\ ev.type = "CHANNEL_SELECT" => ev.channelId = "c1"}

\* the reconciliation loop against the host's events, within one debounce
\* window
NextLoop ==
    \/ LoadSteps
    \/ \E ev \in LoopEvents : HostDispatch(ev)
    \/ TimerSteps
    \/ PollTick
    \/ ClearSteps

SpecLoop == Init /\ [][NextLoop]_vars /\ EventLoop

\* events of the host during load and unload
LifeEvents ==
    {Ev("CONNECTION_OPEN", Null, NoId, {}, <<>>),
     Ev("LOAD_MESSAGES_SUCCESS", "c1", NoId, {}, <<>>),
     Ev("CHANNEL_SELECT", "c1", NoId, {}, <<>>),
     Ev("MESSAGE_DELETE", "c1", PriorMessage("c1", 0).id, {}, <<>>)}

\* the lifecycle: onLoad suspended at its delays, onUnload at any time
NextLife ==
    \/ LoadSteps
    \/ onUnload
    \/ ToggleAutoInject
    \/ \E ev \in LifeEvents : HostDispatch(ev)
    \/ PollTick
    \/ TimerSteps
    \/ Tick

SpecLife == Init /\ [][NextLife]_vars

\* a channel switch and the deletion of a stored message
StoreEvents ==
    {Ev("CHANNEL_SELECT", "c1", NoId, {}, <<>>),
     Ev("MESSAGE_DELETE", "c1", PriorMessage("c1", 0).id, {}, <<>>)}

\* everything that touches the store, side by side: console calls, clears,
\* host events, the poll and the timeouts
NextStore ==
    \/ LoadSteps
    \/ QuickSteps({"p1"})
    \/ ClearSteps
    \/ \E ev \in StoreEvents : HostDispatch(ev)
    \/ PollTick
    \/ TimerSteps

SpecStore == Init /\ [][NextStore]_vars

----------------------------------------------------------------------------
(* Building message bodies: the inputs drawn and the step *)

\* the texts drawn against a limit: missing, empty, short, at the limit and
\* beyond it
Texts(limit) ==
    {Undefined, Str(0), Str(1), Str(limit)}
        \cup {Str(limit + k) : k \in 1..MaxExcess}

HashColor == StrOf(<<"#", "5", "8", "6", "5", "F", "2">>)

Colors ==
    {Undefined, Num(5793266), HashColor,
     StrOf(<<"0", "x", "5", "8", "6", "5", "F", "2">>),
     StrOf(<<"r", "e", "d">>)}

Repeat(n, item) == [i \in 1..n |-> item]

ShortField == Field(Str(1), Str(1))
LongField  == Field(Str(FIELD_NAME_MAX + MaxExcess),
                    Str(FIELD_VALUE_MAX + MaxExcess))

\* missing, a text, an object, and lists: empty, short, full, too long, and
\* one opening with a null and a nameless element
FieldInputs ==
    {Undefined, Str(1), Footer(Str(1)),
     Arr(<<>>),
     Arr(Repeat(1, ShortField)),
     Arr(Repeat(FIELDS_MAX, LongField)),
     Arr(Repeat(FIELDS_MAX + MaxExcess, LongField)),
     Arr(<<Undefined, Field(Str(0), Str(1))>>
             \o Repeat(FIELDS_MAX, LongField))}

EmptyEmbed ==
    Embed(Undefined, Undefined, Undefined, Undefined, Undefined, Undefined)

TitledEmbed == [EmptyEmbed EXCEPT !.title = Str(1)]

FullEmbed ==
    Embed(Str(TITLE_MAX + MaxExcess), Str(DESCRIPTION_MAX + MaxExcess),
          Num(5793266), Footer(Str(FOOTER_MAX + MaxExcess)),
          Author(Str(AUTHOR_MAX + MaxExcess)), Undefined)

EmbedInputs ==
    {Undefined}
        \cup {[EmptyEmbed EXCEPT !.title = x] : x \in Texts(TITLE_MAX)}
        \cup {[EmptyEmbed EXCEPT !.description = x] :
                  x \in Texts(DESCRIPTION_MAX)}
        \cup {[e EXCEPT !.color = x] :
                  e \in {EmptyEmbed, TitledEmbed}, x \in Colors}
        \cup {[EmptyEmbed EXCEPT !.footer = Footer(x)] :
                  x \in Texts(FOOTER_MAX)}
        \cup {[EmptyEmbed EXCEPT !.author = Author(x)] :
                  x \in Texts(AUTHOR_MAX)}
        \cup {[e EXCEPT !.fields = x] :
                  e \in {EmptyEmbed, TitledEmbed, FullEmbed},
                  x \in FieldInputs}

ExplicitInstants == {0, StartNow + 2 * MaxTicks * TickMs}

TimeInputs ==
    {Undefined, EmptyTime, TimeText("garbage", 0)}
        \cup {TimeText(form, i) :
                  form \in {"iso", "offset"}, i \in ExplicitInstants}

\* a content, a timestamp and an embed beyond every limit
OverlongContent == Str(CONTENT_MAX + MaxExcess)

OverlongEmbed ==
    [FullEmbed EXCEPT
         !.fields = Arr(Repeat(FIELDS_MAX + MaxExcess, LongField))]

\* each of the three options varied against a few values of the others
BodyInputs ==
    {BodyOptions(c, Undefined, e) :
         c \in Texts(CONTENT_MAX), e \in {Undefined, OverlongEmbed}}
        \cup {BodyOptions(c, ts, Undefined) :
                  c \in {Undefined, Str(1)}, ts \in TimeInputs}
        \cup {BodyOptions(c, Undefined, e) :
                  c \in {Str(1), OverlongContent}, e \in EmbedInputs}

\* fakeMessage builds the body of its message from the options of the call
FabricateBody(o) ==
    /\ out' = [Obs("body") EXCEPT
                   !.request = o,
                   !.body    = fakeMessageBody(variant, o, now)]
    /\ UNCHANGED <<variant, persistentMessages, injectionResults, enabled,
                   preventMessageDeletion, autoInjectOnStartup, unpatches,
                   channelMonitorInterval, currentChannelId, selectedChannel,
                   api, loadPc, unloadedAt, cleared, timers, calls, now,
                   lastReinjectTime, isStartupComplete>>

\* bodies built at one clock value or another
NextBody ==
    \/ \E o \in BodyInputs : FabricateBody(o)
    \/ Tick

SpecBody == Init /\ [][NextBody]_vars

----------------------------------------------------------------------------
(* Events of any shape, with the switches of the settings page *)

\* deletions with and without an id and a channel, bulk deletions with an
\* array of ids, with a number for ids and without a channel, and a channel
\* switch
ShapeEvents ==
    {Ev("MESSAGE_DELETE", "c1", PriorMessage("c1", 0).id, {}, <<>>),
     Ev("MESSAGE_DELETE", "c1", NoId, {}, <<>>),
     Ev("MESSAGE_DELETE", Null, PriorMessage("c1", 0).id, {}, <<>>),
     Ev("MESSAGE_DELETE_BULK", "c1", NoId, {PriorMessage("c1", 0).id}, <<>>),
     WithIds(Ev("MESSAGE_DELETE_BULK", "c1", NoId, {}, <<>>), "number"),
     WithIds(Ev("MESSAGE_DELETE_BULK", Null, NoId, {}, <<>>), "number"),
     Ev("CHANNEL_SELECT", "c1", NoId, {}, <<>>)}

NextSwitch ==
    \/ LoadSteps
    \/ ToggleEnabled
    \/ TogglePreventDeletion
    \/ \E ev \in ShapeEvents : HostDispatch(ev)
    \/ PollTick
    \/ TimerSteps

SpecSwitch == Init /\ [][NextSwitch]_vars

----------------------------------------------------------------------------
(* Reassertions against the clock *)

\* the console call reinjectChannel(c): reinjectMessagesForChannel at once,
\* forced in index.ts
reinjectChannel(c) ==
    /\ api
    /\ Cardinality(timers) < MaxTimers
    /\ timers' = timers \cup ReinjectTimers(c, variant = "v1.0.3")
    /\ lastReinjectTime' =
           IF variant = "v1.0.3" /\ Reinjects(c, TRUE)
           THEN [lastReinjectTime EXCEPT ![c] = now]
           ELSE lastReinjectTime
    /\ out' = [Obs("reinjectChannel") EXCEPT
                 !.result = IF Reinjects(c, variant = "v1.0.3")
                            THEN "true" ELSE "false",
                 !.channel = c]
    /\ UNCHANGED <<variant, persistentMessages, injectionResults, enabled,
                   preventMessageDeletion, autoInjectOnStartup, unpatches,
                   channelMonitorInterval, currentChannelId, selectedChannel,
                   api, loadPc, unloadedAt, cleared, calls, now,
                   isStartupComplete>>

\* a reconnect, a reload of channel c1 and a bulk deletion of its message
DebounceEvents ==
    {Ev("CONNECTION_OPEN", Null, NoId, {}, <<>>),
     Ev("LOAD_MESSAGES_SUCCESS", "c1", NoId, {}, <<>>),
     Ev("MESSAGE_DELETE_BULK", "c1", NoId, {PriorMessage("c1", 0).id}, <<>>)}

NextDebounce ==
    \/ LoadSteps
    \/ \E ev \in DebounceEvents : HostDispatch(ev)
    \/ \E c \in Channels : reinjectChannel(c)
    \/ TimerSteps
    \/ Tick

SpecDebounce == Init /\ [][NextDebounce]_vars

----------------------------------------------------------------------------
(* Deletions that match and deletions that do not *)

\* deletions of a stored and of a foreign message, bulk deletions with and
\* without a stored id, and two types the interceptor has no case for
FrameEvents ==
    {Ev("MESSAGE_DELETE", "c1", PriorMessage("c1", 0).id, {}, <<>>),
     Ev("MESSAGE_DELETE", "c1", ForeignId, {}, <<>>),
     Ev("MESSAGE_DELETE", "c2", PriorMessage("c1", 1).id, {}, <<>>),
     Ev("MESSAGE_DELETE_BULK", "c1", NoId, {ForeignId}, <<>>),
     Ev("MESSAGE_DELETE_BULK", "c1", NoId,
        {ForeignId, PriorMessage("c1", 0).id}, <<>>),
     Ev("TYPING_START", "c1", NoId, {}, <<>>),
     Ev("MESSAGE_CREATE", "c1", ForeignId, {}, <<>>)}

NextFrame ==
    \/ LoadSteps
    \/ TogglePreventDeletion
    \/ \E ev \in FrameEvents : HostDispatch(ev)
    \/ TimerSteps

SpecFrame == Init /\ [][NextFrame]_vars

----------------------------------------------------------------------------
(* Two fakeMessage calls in flight *)

\* persistent calls for channel c1 (through its DM partner) and for c2
OverlapInputs ==
    {CallOptions(U789, T123, Null, TRUE, NoId),
     CallOptions(U789, Absent, "c2", TRUE, NoId)}

\* both console callers, each suspended between building its message and
\* appending it, with clears in between; with the plugin switched off the
\* injections of the calls set no reassertion going
NextOverlap ==
    \/ LoadSteps
    \/ ToggleEnabled
    \/ \E p \in Procs, o \in OverlapInputs : FakeMessageCall(p, o)
    \/ \E p \in Procs, throws \in BOOLEAN : FakeMessageAppend(p, throws)
    \/ ClearSteps
    \/ TimerSteps

SpecOverlap == Init /\ [][NextOverlap]_vars

----------------------------------------------------------------------------
(* savePersistentMessages on its own: the stores it is called on and the    *)
(* step                                                                     *)

\* the messages of channel c as an earlier save left them
SavedMessages(c) ==
    {JsonMessage(createMessageObject(c, u, NoId, 1, r)) :
        u \in {U456, U789}, r \in 0..1}

\* the message fakeMessage has just pushed, not yet through a save
PushedMessages(c) ==
    {createMessageObject(c, u, NoId, 1, r) : u \in {U456, U789}, r \in 0..1}

\* a list at the moment a save runs: saved messages, and at its end a saved
\* or a just pushed one
ListsToSave(c) ==
    UNION {{l \o <<m>> : l \in [1..n -> SavedMessages(c)],
                         m \in SavedMessages(c) \cup PushedMessages(c)} :
              n \in 0..(MaxLen - 1)}

StoresToSave ==
    UNION {{store \in [C -> UNION {ListsToSave(c) : c \in C}] :
               \A c \in C : store[c] \in ListsToSave(c)} :
              C \in SUBSET Channels}

InitSave ==
    /\ variant \in Variants
    /\ persistentMessages \in StoresToSave
    /\ injectionResults = DefaultInjectionResults
    /\ enabled = TRUE
    /\ preventMessageDeletion = TRUE
    /\ autoInjectOnStartup = TRUE
    /\ unpatches = 0
    /\ channelMonitorInterval = FALSE
    /\ currentChannelId = Null
    /\ selectedChannel = Null
    /\ api = FALSE
    /\ loadPc = "init"
    /\ unloadedAt = "no"
    /\ cleared = {}
    /\ timers = {}
    /\ calls = [p \in Procs |-> IdleCall]
    /\ now = StartNow
    /\ lastReinjectTime = [c \in Channels |-> 0]
    /\ isStartupComplete = FALSE
    /\ out = Obs("init")

\* one call of savePersistentMessages()
Save ==
    /\ persistentMessages' = savePersistentMessages(persistentMessages)
    /\ out' = Obs("save")
    /\ UNCHANGED <<variant, injectionResults, enabled,
                   preventMessageDeletion, autoInjectOnStartup, unpatches,
                   channelMonitorInterval, currentChannelId, selectedChannel,
                   api, loadPc, unloadedAt, cleared, timers, calls, now,
                   lastReinjectTime, isStartupComplete>>

SpecSave == InitSave /\ [][Save]_vars

----------------------------------------------------------------------------
(* Vocabulary of the properties *)

\* a string that is not a run of digits once trimmed
NonNumeric(id) ==
    /\ id # Absent
    /\ \/ Trim(id) = <<>>
       \/ \E i \in 1..Len(Trim(id)) : Trim(id)[i] \notin Digits

Numeric(id) == id # Absent /\ ~NonNumeric(id)

ListOf(store, c) == IF Has(store, c) THEN store[c] ELSE <<>>

\* the last step was the return of a fakeMessage call
Returned == out.kind = "fakeMessage" /\ out.result # "none"

\* the last step was the return of a persistent fakeMessage call that got as
\* far as the append
PersistentReturn ==
    /\ out.kind = "fakeMessage"
    /\ out.injected # <<>>
    /\ out.options.persistent

\* ... made with a numeric sender and a numeric target whose DM channel was
\* resolved
PairReturn ==
    /\ PersistentReturn
    /\ Numeric(out.options.fromUserId)
    /\ Numeric(out.options.targetUserId)
    /\ out.options.channelId = Null

\* new is old with one more entry at its end, carrying id
GainsOne(old, new, id) ==
    /\ Len(new) = Len(old) + 1
    /\ SubSeq(new, 1, Len(old)) = old
    /\ new[Len(new)].id = id

----------------------------------------------------------------------------
(* C1 *)

----------------------------------------------------------------------------
(* C2 *)

\* the last call returned failure and left the store as it was
Rejected == out'.result = "false" /\ persistentMessages' = persistentMessages

----------------------------------------------------------------------------
(* C3 *)

\* C3, as stated: after any sequence of fakeMessage, clear and recovery
\* operations no channel's list holds two messages with the same id.
C3_NoDuplicateIds ==
    \A c \in DOMAIN persistentMessages :
        \A i, j \in 1..Len(persistentMessages[c]) :
            persistentMessages[c][i].id = persistentMessages[c][j].id
                => i = j

----------------------------------------------------------------------------
(* C4 *)

\* C4, as stated: a persistent fakeMessage call that carries an explicit
\* messageId leaves exactly one entry with that id in the resolved
\* channel's list: the first such call adds it, an identical second call
\* does not duplicate it.
C4_ExplicitIdStoredOnce ==
    (PersistentReturn /\ out.options.messageId # NoId) =>
        Cardinality(Find(ListOf(persistentMessages,
                                out.injected[1].channel_id),
                         out.options.messageId)) = 1

----------------------------------------------------------------------------
(* Vocabulary of the reconciliation loop.  A dispatch by the host changes   *)
(* neither the store nor the switches, so the state it leaves shows what    *)
(* the interceptor saw.                                                     *)

\* the messages channel c's list holds
StoredFor(c) ==
    {ListOf(persistentMessages, c)[i] :
        i \in 1..Len(ListOf(persistentMessages, c))}

\* the last step handed m to injectMessage
Injected(m) == out.injected = <<m>>

\* the interceptor is installed, the plugin enabled, deletion prevention on
Armed == Intercepting /\ preventMessageDeletion

\* the host has just dispatched a MESSAGE_DELETE for the stored message m
DeleteHit(m) ==
    /\ out.kind = "host"
    /\ out.event.type = "MESSAGE_DELETE"
    /\ out.event.channelId = m.channel_id
    /\ out.event.id = m.id
    /\ m \in StoredFor(m.channel_id)
    /\ Armed

\* the host has just dispatched a MESSAGE_DELETE_BULK for channel c that
\* targets at least one id stored for c
BulkHit(c) ==
    /\ out.kind = "host"
    /\ out.event.type = "MESSAGE_DELETE_BULK"
    /\ out.event.channelId = c
    /\ Ids(ListOf(persistentMessages, c)) \cap out.event.ids # {}
    /\ Armed

----------------------------------------------------------------------------
(* C5 *)

\* C5: with deletion prevention on and the plugin enabled, a MESSAGE_DELETE
\* whose id matches a message stored for its channel reaches the host's
\* handling as a no-op, and that message is handed to injectMessage again
\* afterwards.
C5_DeleteSuppressedThenReinjected ==
    /\ [](\A m \in PriorMessages : DeleteHit(m) => out.delivered = "NOOP")
    /\ \A m \in PriorMessages : DeleteHit(m) ~> Injected(m)

\* a matching MESSAGE_DELETE has just been replaced by the no-op and the
\* reassertion of its message is pending
C5_Witness ==
    \E m \in PriorMessages :
        /\ DeleteHit(m)
        /\ out.delivered = "NOOP"
        /\ \E silent \in BOOLEAN : InjectTimer(<<m>>, silent) \in timers

----------------------------------------------------------------------------
(* C6 *)

\* C6, as stated: with deletion prevention on and the plugin enabled, a
\* MESSAGE_DELETE_BULK that targets at least one stored id reaches the
\* host's handling as a no-op, and every message stored for its channel is
\* handed to injectMessage again afterwards.
C6_BulkSuppressedThenAllReinjected ==
    /\ [](\A c \in Channels : BulkHit(c) => out.delivered = "NOOP")
    /\ \A m \in PriorMessages :
          (BulkHit(m.channel_id) /\ m \in StoredFor(m.channel_id))
              ~> Injected(m)

\* C6, amended: ... and every message stored for its channel is handed to
\* injectMessage again afterwards, unless the channel's list is cleared
\* before the delayed reassertion has read it.
C6_BulkSuppressedThenAllReinjectedUnlessCleared ==
    /\ [](\A c \in Channels : BulkHit(c) => out.delivered = "NOOP")
    /\ \A m \in PriorMessages :
          (BulkHit(m.channel_id) /\ m \in StoredFor(m.channel_id))
              ~> (Injected(m) \/ m \notin StoredFor(m.channel_id))

\* a bulk deletion naming one stored and one foreign id has just been
\* replaced by the no-op in a channel that holds two messages
C6_Witness ==
    \E c \in Channels :
        /\ BulkHit(c)
        /\ ForeignId \in out.event.ids
        /\ out.delivered = "NOOP"
        /\ Len(ListOf(persistentMessages, c)) = 2

----------------------------------------------------------------------------
(* C7 *)

\* the interceptor has just seen a history-loaded or channel-selected event
\* for channel c, or a connection-opened event while c is the selected
\* channel, and c has stored messages
ReloadSeen(c) ==
    /\ out.kind = "host"
    /\ Intercepting
    /\ Has(persistentMessages, c)
    /\ \/ /\ out.event.type \in {"LOAD_MESSAGES_SUCCESS", "CHANNEL_SELECT"}
          /\ out.event.channelId = c
       \/ /\ out.event.type = "CONNECTION_OPEN"
          /\ selectedChannel = c

\* C7, as stated, read in the code's favour (a channel cleared meanwhile
\* owes nothing): whenever the interceptor sees a history-loaded,
\* channel-selected or connection-opened event concerning a channel with
\* stored messages, every message stored for that channel is eventually
\* handed to injectMessage again.
C7_ReloadThenAllReinjected ==
    \A m \in PriorMessages :
        (ReloadSeen(m.channel_id) /\ m \in StoredFor(m.channel_id))
            ~> (Injected(m) \/ m \notin StoredFor(m.channel_id))

----------------------------------------------------------------------------
(* C8 *)

\* C8, as stated: once clearChannelMessages(c) or clearAllMessages has
\* returned, and until a message is appended to c again, no timeout injects
\* a message of c and no deletion event for c is replaced by the no-op.
C8_ClearedStaysCleared ==
    /\ (out.kind = "inject" => out.injected[1].channel_id \notin cleared)
    /\ (/\ out.kind = "host"
        /\ out.event.type \in {"MESSAGE_DELETE", "MESSAGE_DELETE_BULK"}
        /\ out.event.channelId \in cleared) => out.delivered = "same"

----------------------------------------------------------------------------
(* C9 *)

TimerKinds == {"inject", "reinject", "ack", "update", "startup", "poll"}

\* C9, as stated, for an onUnload that runs after onLoad has finished: once
\* onUnload has returned the interceptor is unregistered and no callback of
\* a timer the plugin started runs any more.
C9_UnloadStopsEverything ==
    unloadedAt = "done" =>
        /\ unpatches = 0
        /\ ~channelMonitorInterval
        /\ out.kind \notin TimerKinds

----------------------------------------------------------------------------
(* C10 *)

\* C10, as stated: when onUnload runs while onLoad is suspended at one of
\* its delays, then once onLoad has finished too no interceptor, no poll
\* interval and no global API object is installed, and the steps onLoad
\* takes after the unload schedule no injection.
C10_UnloadDuringLoadLeavesNothing ==
    [][unloadedAt' \in {"delay1", "delay2"} =>
         /\ loadPc' \in {"done", "failed"} =>
                /\ unpatches' = 0
                /\ ~channelMonitorInterval'
                /\ ~api'
         /\ out'.kind = "onLoad" => timers' \subseteq timers]_vars

----------------------------------------------------------------------------
(* C11 *)

RequiredFields == {"id", "channel_id", "author", "timestamp"}

\* m carries every required field
Complete(m) == RequiredFields \subseteq DOMAIN m

\* the complete messages of l, in the order l has them
RECURSIVE Retained(_)
Retained(l) ==
    IF l = <<>> THEN <<>>
    ELSE (IF Complete(Head(l)) THEN <<Head(l)>> ELSE <<>>)
         \o Retained(Tail(l))

\* onLoad is taking its first step, the recovery pass
Recovering == loadPc = "init" /\ loadPc' = "delay1"

\* C11: after the startup recovery pass every channel value of the store is
\* a non-empty list whose messages all have id, channel_id, author and
\* timestamp; each channel keeps exactly the complete messages it held
\* before the pass, in their order, and a channel left with none is removed.
C11_RecoveryKeepsWellFormed ==
    [][Recovering =>
         /\ DOMAIN persistentMessages' \subseteq DOMAIN persistentMessages
         /\ \A c \in DOMAIN persistentMessages' :
               /\ persistentMessages'[c] # <<>>
               /\ \A i \in 1..Len(persistentMessages'[c]) :
                     Complete(persistentMessages'[c][i])
         /\ \A c \in DOMAIN persistentMessages :
               ListOf(persistentMessages', c) =
                   Retained(persistentMessages[c])]_vars

\* the pass has just run over a store in which one channel kept one of two
\* entries and another channel, holding only a damaged entry, was removed
C11_Witness ==
    /\ loadPc = "delay1"
    /\ out.kind = "onLoad"
    /\ DOMAIN persistentMessages = {"c1"}
    /\ persistentMessages["c1"] = <<PriorMessage("c1", 1)>>

----------------------------------------------------------------------------
(* C12 *)

\* C12: clearAllMessages leaves the store empty whatever it held before,
\* and from the state a call of it leaves a second call can run and leaves
\* the store empty again.
C12_ClearAllEmpties ==
    out.kind = "clearAllMessages" =>
        /\ persistentMessages = <<>>
        /\ ENABLED clearAllMessages

\* clearAllMessages has just run over a store that held lists for both
\* channels
C12_Witness ==
    /\ out.kind = "clearAllMessages"
    /\ cleared = Channels
    /\ persistentMessages = <<>>

----------------------------------------------------------------------------
(* C13 *)

\* C13: clearChannelMessages(c) removes the whole list of channel c and
\* leaves the list of every other channel as it was; for a channel without
\* a list it changes nothing in the store.
C13_ClearChannelFrame ==
    [][out'.kind = "clearChannelMessages" =>
         /\ ~Has(persistentMessages', out'.channel)
         /\ \A d \in Channels \ {out'.channel} :
               /\ Has(persistentMessages', d) <=> Has(persistentMessages, d)
               /\ ListOf(persistentMessages', d) =
                      ListOf(persistentMessages, d)
         /\ ~Has(persistentMessages, out'.channel) =>
               persistentMessages' = persistentMessages]_vars

\* clearChannelMessages("c1") has just removed the list of c1 and the list
\* of c2 is still there
C13_Witness ==
    /\ out.kind = "clearChannelMessages"
    /\ out.channel = "c1"
    /\ "c1" \in cleared
    /\ ~Has(persistentMessages, "c1")
    /\ Has(persistentMessages, "c2")

----------------------------------------------------------------------------
(* C14 *)

PublicOperations ==
    {"fakeMessage", "runParameterTests", "clearAllMessages",
     "clearChannelMessages", "getAllMessages", "getStatus"}

\* C14, as stated, with any returned value or notice counted as an
\* outcome: no public operation (fakeMessage, quickTest, runParameterTests,
\* clearAllMessages, clearChannelMessages, getAllMessages, getStatus) ends
\* by throwing or rejecting, whatever its arguments and the store.
C14_NoOperationThrows ==
    out.kind \in PublicOperations => out.result # "threw"

----------------------------------------------------------------------------
(* C15 *)

\* the call that is returning failed with notice w and built, stored and
\* scheduled nothing
FailsWith(w) ==
    /\ out'.why = w
    /\ out'.result = "false"
    /\ out'.injected = <<>>
    /\ persistentMessages' = persistentMessages
    /\ timers' = timers
    /\ \A p \in Procs : calls'[p].pc = "idle" => calls'[p].message = <<>>

\* C15: fakeMessage reports an invalid sender when fromUserId is not
\* numeric; otherwise an invalid target when no channelId is given and
\* targetUserId is a non-numeric string; otherwise no channel when no
\* channel id is resolved; in each of these cases it returns false and
\* neither builds, stores nor injects a message.
C15_ValidationOrder ==
    [][Returned' =>
         LET o         == out'.options
             badTarget == o.channelId = Null /\ NonNumeric(o.targetUserId)
         IN  /\ ~Numeric(o.fromUserId) => FailsWith("invalid sender")
             /\ (Numeric(o.fromUserId) /\ badTarget)
                    => FailsWith("invalid target")
             /\ (Numeric(o.fromUserId) /\ ~badTarget
                                       /\ out'.injected = <<>>)
                    => FailsWith("no channel")]_vars

\* a call with a numeric sender and a numeric target has just failed
\* because the host knew no DM channel for the target, even after the wait
C15_Witness ==
    /\ Returned
    /\ Numeric(out.options.fromUserId)
    /\ Numeric(out.options.targetUserId)
    /\ out.options.channelId = Null
    /\ out.why = "no channel"
    /\ out.result = "false"

----------------------------------------------------------------------------
(* C16 *)

\* a fakeMessage call is returning after the dispatch of its message threw
DispatchThrew ==
    /\ out'.kind = "fakeMessage"
    /\ out'.injected # <<>>
    /\ out'.result = "false"

\* C16, as stated: when the host's dispatch throws during fakeMessage, a
\* failure notice is shown, the call ends with result false, and no later
\* injection or reassertion is scheduled for it.
C16_DispatchFailureSurfaced ==
    [][DispatchThrew =>
         /\ out'.why # ""
         /\ \A t \in timers' \ timers :
               t.kind \notin {"inject", "reinject"}]_vars

----------------------------------------------------------------------------
(* C17 *)

\* C17, as stated: every call of injectMessage for a message m dispatches
\* one MESSAGE_CREATE event whose channelId is m.channel_id and whose
\* payload is m.
C17_InjectIsMessageCreate ==
    out.injected # <<>> =>
        /\ out.event.type = "MESSAGE_CREATE"
        /\ out.event.channelId = out.injected[1].channel_id

----------------------------------------------------------------------------
(* C18 *)

\* new begins with the entries of old, in place
KeepsEntries(old, new) ==
    /\ Len(old) <= Len(new)
    /\ SubSeq(new, 1, Len(old)) = old

Removers == {"clearAllMessages", "clearChannelMessages"}

----------------------------------------------------------------------------
(* C19 *)

\* the step leaves every stored message that is still stored as it was:
\* an entry of the new store whose channel and id the old store knew is an
\* entry of the old store
StoredUnchanged ==
    \A n \in Stored(persistentMessages') :
        (\E m \in Stored(persistentMessages) :
             m.id = n.id /\ m.channel_id = n.channel_id)
            => n \in Stored(persistentMessages)

\* a fakeMessage call is at the return of createMessageObject
Building ==
    \E p \in Procs : calls[p].pc # "built" /\ calls'[p].pc = "built"

\* C19: a stored message keeps its id, channel_id, author and timestamp for
\* as long as it is stored, across console calls, reassertions, intercepted
\* events and saves; building a message does not modify the store.
C19_StoredMessagesImmutable ==
    [][/\ StoredUnchanged
       /\ Building => persistentMessages' = persistentMessages]_vars

\* a reassertion has just injected a message that an earlier session saved,
\* after a later call added another message to the same list
C19_Witness ==
    /\ out.kind = "inject"
    /\ out.injected = <<PriorMessage("c1", 0)>>
    /\ Len(ListOf(persistentMessages, "c1")) = 2
    /\ ListOf(persistentMessages, "c1")[1] = PriorMessage("c1", 0)
    /\ ListOf(persistentMessages, "c1")[2].timestamp >= StartNow

----------------------------------------------------------------------------
(* C20 *)

\* the host's selection is a channel other than the last one the poll saw
Switched == selectedChannel # Null /\ selectedChannel # currentChannelId

----------------------------------------------------------------------------
(* C21 *)

\* a timeout of a reassertion is handing m to injectMessage and the
\* dispatch throws
ReassertionThrew(m) ==
    /\ out'.kind = "inject"
    /\ out'.injected = <<m>>
    /\ out'.result = "false"

\* C21, as stated: when injecting a message throws during a reassertion the
\* error is dropped: the messages that follow it in the reassertion stay
\* scheduled, and the step schedules no reassertion and no injection that
\* would attempt the failed message again.
C21_FailedInjectionDropped ==
    [][\A m \in PriorMessages : ReassertionThrew(m) =>
         /\ \E t \in timers :
               /\ t.kind = "inject"
               /\ Head(t.msgs) = m
               /\ Len(t.msgs) > 1 =>
                      InjectTimer(Tail(t.msgs), t.force) \in timers'
         /\ \A t \in timers' \ timers :
               /\ t.kind # "reinject"
               /\ t.kind = "inject" =>
                      \A i \in 1..Len(t.msgs) : t.msgs[i] # m]_vars

----------------------------------------------------------------------------
(* C22 - C25: the body of a fabricated message *)

\* the last step built a message body
BodyBuilt == out.kind = "body"

\* the last step built a body from an embed object
EmbedGiven == BodyBuilt /\ out.request.embed.is = "object"

\* C22: a body built from an embed whose color is the text "#5865F2" has one
\* embed, and its color is the number 5793266, the value parseColor gives
\* for that text.
C22_HexColorStored ==
    EmbedGiven /\ out.request.embed.color = HashColor =>
        /\ parseColor(HashColor) = Num(5793266)
        /\ Len(out.body.embeds) = 1
        /\ out.body.embeds[1].color = Num(5793266)

\* the first n characters of a text
CutTo(v, n) == IF v.len > n THEN Str(n) ELSE v

\* a key holding a non-empty text
TextGiven(v) == v.is = "string" /\ v.len > 0

\* C23: when the fields of the embed are not an array, validation still
\* returns: the embed of the body has no fields, and a title, a description
\* and (in settings.tsx) a numeric color, a footer text and an author name
\* that were given are in it, cut to their limits.
C23_NonArrayFieldsOmitted ==
    EmbedGiven /\ out.request.embed.fields.is # "array" =>
        LET e == out.request.embed
            b == out.body.embeds
        IN  /\ \A i \in 1..Len(b) : b[i].fields = Undefined
            /\ TextGiven(e.title) =>
                   Len(b) = 1 /\ b[1].title = CutTo(e.title, TITLE_MAX)
            /\ TextGiven(e.description) =>
                   /\ Len(b) = 1
                   /\ b[1].description = CutTo(e.description, DESCRIPTION_MAX)
            /\ variant = "v3.2.0" /\ e.color.is = "number" =>
                   Len(b) = 1 /\ b[1].color = e.color
            /\ variant = "v3.2.0" /\ e.footer.is = "object"
                                  /\ TextGiven(e.footer.text) =>
                   /\ Len(b) = 1
                   /\ b[1].footer.text = CutTo(e.footer.text, FOOTER_MAX)
            /\ variant = "v3.2.0" /\ e.author.is = "object"
                                  /\ TextGiven(e.author.name) =>
                   /\ Len(b) = 1
                   /\ b[1].author.name = CutTo(e.author.name, AUTHOR_MAX)

\* a body was built in settings.tsx from a full embed whose fields are a text
C23_Witness ==
    /\ EmbedGiven
    /\ variant = "v3.2.0"
    /\ out.request.embed = [FullEmbed EXCEPT !.fields = Str(1)]
    /\ Len(out.body.embeds) = 1
    /\ out.body.embeds[1].title = Str(TITLE_MAX)

\* a text is missing or no longer than n
Within(v, n) == v.is = "undefined" \/ (v.is = "string" /\ v.len <= n)

\* C24: every body built has a content of at most 2000 characters and at most
\* one embed, whose title has at most 256, description at most 4096, footer
\* text at most 2048 and author name at most 256 characters, and whose fields
\* are at most 25, each with a name of at most 256 and a value of at most
\* 1024 characters.
C24_BodyWithinLimits ==
    BodyBuilt =>
        /\ Within(out.body.content, CONTENT_MAX)
        /\ Len(out.body.embeds) <= 1
        /\ \A i \in 1..Len(out.body.embeds) :
               LET e == out.body.embeds[i]
               IN  /\ Within(e.title, TITLE_MAX)
                   /\ Within(e.description, DESCRIPTION_MAX)
                   /\ e.footer.is = "object" =>
                          Within(e.footer.text, FOOTER_MAX)
                   /\ e.author.is = "object" =>
                          Within(e.author.name, AUTHOR_MAX)
                   /\ e.fields.is = "array" =>
                          /\ Len(e.fields.items) <= FIELDS_MAX
                          /\ \A j \in 1..Len(e.fields.items) :
                                 /\ Within(e.fields.items[j].name,
                                           FIELD_NAME_MAX)
                                 /\ Within(e.fields.items[j].value,
                                           FIELD_VALUE_MAX)

\* a body was built in settings.tsx from a content and an embed that exceed
\* every limit, and carries the cut content, title and footer text and 25
\* fields
C24_Witness ==
    /\ BodyBuilt
    /\ variant = "v3.2.0"
    /\ out.request = BodyOptions(OverlongContent, Undefined, OverlongEmbed)
    /\ out.body.content = Str(CONTENT_MAX)
    /\ Len(out.body.embeds) = 1
    /\ out.body.embeds[1].title = Str(TITLE_MAX)
    /\ out.body.embeds[1].footer.text = Str(FOOTER_MAX)
    /\ Len(out.body.embeds[1].fields.items) = FIELDS_MAX

\* the timestamp of the call parses
ValidTime(ts) == ts.is = "string" /\ ts.len > 0 /\ ts.form # "garbage"

\* C25: a body built from a timestamp that parses carries the instant of
\* that timestamp in the normalized form; a body built from a missing or
\* unparseable timestamp carries the current time in that form.
C25_TimestampKeptOrNow ==
    BodyBuilt =>
        IF ValidTime(out.request.timestamp)
        THEN out.body.timestamp =
                 TimeText("iso", out.request.timestamp.instant)
        ELSE out.body.timestamp = TimeText("iso", now)

----------------------------------------------------------------------------
(* C26: the plugin's own injections *)

\* C26: a step in which a pending reassertion hands a message to
\* injectMessage schedules no further reassertion: the event that injection
\* dispatches does not make the interceptor set a new reassertion timeout.
C26_OwnInjectionSchedulesNothing ==
    [][\A t \in timers :
           (t.kind = "inject" /\ out'.kind = "inject" /\ t \notin timers') =>
               \A s \in timers' \ timers : s.kind # "reinject"]_vars

\* C27: in settings.tsx the method getBestInjectionMethod names has been
\* tested and found working, or it is basicMessageCreate, the default.
C27_BestMethodTestedOrDefault ==
    variant = "v3.2.0" =>
        LET best == getBestInjectionMethod(injectionResults)
        IN  \/ injectionResults[best].tested /\ injectionResults[best].works
            \/ best = "basicMessageCreate"

----------------------------------------------------------------------------
(* C28 - C29: the interceptor against any event, and the enable switch *)

\* C28: no dispatch of the host ends with the interceptor throwing.
C28_InterceptorNeverThrows ==
    out.kind = "host" => out.result # "threw"

\* C29: while the plugin is disabled, a host event is handed on as it came
\* and no step schedules a reassertion.
C29_DisabledDoesNothing ==
    [][(~enabled /\ ~enabled') =>
           /\ out'.kind = "host" => out'.delivered = "same"
           /\ \A t \in timers' \ timers : t.kind # "reinject"]_vars

----------------------------------------------------------------------------
(* C30: the debounce window of index.ts *)

\* the last reassertion of channel c was less than 3000 ms ago
Recent(c) == lastReinjectTime[c] # 0 /\ now - lastReinjectTime[c] < 3000

\* what a reassertion of channel c, forced or not, does in this step
Reasserting(c, force) ==
    /\ (~force /\ Recent(c)) =>
           /\ \A s \in timers' \ timers : s.kind # "inject"
           /\ lastReinjectTime' = lastReinjectTime
    /\ (force /\ Has(persistentMessages, c)
              /\ persistentMessages[c] # <<>>) =>
           /\ \E s \in timers' :
                  s.kind = "inject" /\ s.msgs = persistentMessages[c]
           /\ lastReinjectTime'[c] = now

\* C30: in index.ts a reassertion of channel c that is not forced and comes
\* less than 3000 ms after the last one hands no message to injectMessage
\* and leaves the window as it was; a forced reassertion of a channel with
\* stored messages schedules their injection and starts the window anew.
C30_DebounceUnlessForced ==
    [][variant = "v1.0.3" =>
         /\ \A t \in timers :
                (t.kind = "reinject" /\ t \notin timers'
                                     /\ out'.kind = "reinject") =>
                    Reasserting(t.channelId, t.force)
         /\ \A c \in Channels :
                (out'.kind = "reinjectChannel" /\ out'.channel = c) =>
                    Reasserting(c, TRUE)]_vars

\* in index.ts an unforced reassertion of c1, which has a stored message,
\* was skipped inside the window
C30_Witness ==
    /\ variant = "v1.0.3"
    /\ out.kind = "reinject"
    /\ out.channel = "c1"
    /\ out.result = "false"
    /\ Has(persistentMessages, "c1")
    /\ Recent("c1")
    /\ \A s \in timers : s.kind # "inject"

----------------------------------------------------------------------------
(* C31: reconnects and the startup injection of index.ts *)

\* the step hands a CONNECTION_OPEN of the host to the installed interceptor
Reconnecting ==
    /\ variant = "v1.0.3"
    /\ Intercepting
    /\ out'.kind = "host"
    /\ out'.event.type = "CONNECTION_OPEN"

\* C31: in index.ts a CONNECTION_OPEN seen before startup is marked complete
\* schedules nothing, and one seen afterwards schedules a forced reassertion
\* of every channel of the Store; the startup injection is scheduled only by
\* the step that finishes the load, and a finished load stays finished.
C31_ReconnectAfterStartupOnly ==
    [][/\ Reconnecting =>
              IF isStartupComplete
              THEN timers' = timers \cup
                       {[kind |-> "reinject", channelId |-> c,
                         msgs |-> <<>>, force |-> TRUE] :
                            c \in DOMAIN persistentMessages}
              ELSE timers' = timers
       /\ (variant = "v1.0.3" /\ loadPc = "done") =>
              /\ loadPc' = "done"
              /\ \A t \in timers' \ timers : t.kind # "startup"]_vars

\* in index.ts a reconnect after startup has scheduled the forced
\* reassertion of channel c1
C31_Witness ==
    /\ variant = "v1.0.3"
    /\ isStartupComplete
    /\ Intercepting
    /\ out.kind = "host"
    /\ out.event.type = "CONNECTION_OPEN"
    /\ Has(persistentMessages, "c1")
    /\ \E t \in timers :
           t.kind = "reinject" /\ t.channelId = "c1" /\ t.force

----------------------------------------------------------------------------
(* C32: a persistent message whose first injection fails *)

\* the step is the append-and-inject step of a persistent fakeMessage call
PersistentAppend ==
    /\ out'.kind = "fakeMessage"
    /\ out'.injected # <<>>
    /\ out'.options.persistent
    /\ \E p \in Procs : calls[p].pc = "built" /\ calls'[p].pc = "idle"

----------------------------------------------------------------------------
(* C33: a fakeMessage call that is not persistent *)

\* the step is the inject step of a fakeMessage call without persistent
TransientAppend ==
    /\ out'.kind = "fakeMessage"
    /\ out'.injected # <<>>
    /\ ~out'.options.persistent
    /\ \E p \in Procs : calls[p].pc = "built" /\ calls'[p].pc = "idle"

\* C33: the inject step of a fakeMessage call without persistent leaves the
\* Store as it was, and afterwards the message is not among those a
\* reassertion of its channel injects, and a deletion event for its id is
\* handed to the host as it came even with deletion prevention on.
C33_TransientLeavesNoTrace ==
    [][TransientAppend =>
           LET m   == out'.injected[1]
               del == Ev("MESSAGE_DELETE", m.channel_id, m.id, {}, <<>>)
           IN  /\ persistentMessages' = persistentMessages
               /\ Has(persistentMessages', m.channel_id) =>
                      m.id \notin Ids(persistentMessages'[m.channel_id])
               /\ InterceptArg(TRUE, persistentMessages', del) = del]_vars

----------------------------------------------------------------------------
(* C34: events the interceptor lets through *)

DeletionTypes == {"MESSAGE_DELETE", "MESSAGE_DELETE_BULK"}

\* the ids the event of this step targets
Targets == IF out'.event.type = "MESSAGE_DELETE"
           THEN {out'.event.id} ELSE out'.event.ids

\* the event of this step is a deletion that targets no message stored for
\* its channel
TargetsNothingStored ==
    /\ out'.event.type \in DeletionTypes
    /\ Ids(ListOf(persistentMessages, out'.event.channelId)) \cap Targets = {}

\* C34: a host event that is a deletion targeting no message stored for its
\* channel, or that is no deletion at all, is handed on as it came; an event
\* of a type without a case in the interceptor schedules nothing; and with
\* deletion prevention off every deletion is handed on as it came and
\* schedules nothing.
C34_OthersPassUnmodified ==
    [][out'.kind = "host" =>
           /\ (TargetsNothingStored \/ out'.event.type \notin DeletionTypes)
                  => out'.delivered = "same"
           /\ out'.event.type \in {"TYPING_START", "MESSAGE_CREATE"}
                  => timers' = timers
           /\ (~preventMessageDeletion /\ out'.event.type \in DeletionTypes)
                  => out'.delivered = "same" /\ timers' = timers]_vars

\* with deletion prevention off and the interceptor installed, the deletion
\* of a stored message was handed on as it came and nothing is pending
C34_Witness ==
    /\ out.kind = "host"
    /\ out.event.type = "MESSAGE_DELETE"
    /\ out.event.id \in Ids(ListOf(persistentMessages, out.event.channelId))
    /\ ~preventMessageDeletion
    /\ Intercepting
    /\ out.delivered = "same"
    /\ timers = {}

----------------------------------------------------------------------------
(* C35: overlapping persistent calls *)

\* caller p appends in this step
Appends(p) ==
    /\ calls[p].pc = "built"
    /\ calls'[p].pc = "idle"
    /\ calls[p].options.persistent

\* every list of the Store is still there and begins with what it held
KeepsLists ==
    \A d \in DOMAIN persistentMessages :
        /\ Has(persistentMessages', d)
        /\ Len(persistentMessages'[d]) >= Len(persistentMessages[d])
        /\ SubSeq(persistentMessages'[d], 1, Len(persistentMessages[d]))
               = persistentMessages[d]

----------------------------------------------------------------------------
(* C36: the shape of the store *)

\* the messages of list l all name channel c
NamesChannel(l, c) == \A i \in 1..Len(l) : l[i].channel_id = c

\* C36: storage.persistentMessages maps channels to non-empty lists, and
\* every message stored under channel c has channel_id c, in every state
\* the public operations, the intercepted events and the timeouts reach
C36_StoreShape ==
    /\ DOMAIN persistentMessages \subseteq Channels
    /\ \A c \in DOMAIN persistentMessages :
           /\ Len(persistentMessages[c]) > 0
           /\ NamesChannel(persistentMessages[c], c)

\* a channel was cleared and another holds a message appended by this load
C36_Witness ==
    /\ out.kind = "clearChannelMessages"
    /\ out.channel = "c1"
    /\ ~Has(persistentMessages, "c1")
    /\ Has(persistentMessages, "c2")
    /\ \E i \in 1..Len(persistentMessages["c2"]) :
           persistentMessages["c2"][i] \notin PriorMessages


----------------------------------------------------------------------------
(* C37: order of the stored messages *)

\* list a is the beginning of list b
IsPrefix(a, b) == Len(a) <= Len(b) /\ SubSeq(b, 1, Len(a)) = a

\* the step runs reinjectMessagesForChannel(c) and it goes ahead
ReassertsChannel(c) ==
    /\ \E t \in timers \ timers' : t.kind = "reinject" /\ t.channelId = c
    /\ out'.kind = "reinject"
    /\ out'.channel = c
    /\ out'.result = "true"

\* the step is a timeout of the series l injecting its first message
InjectsFirstOf(l) ==
    /\ \E t \in timers \ timers' : t.kind = "inject" /\ t.msgs = l
    /\ out'.kind = "inject"

----------------------------------------------------------------------------
(* C38: a load that does not find its stores *)

\* nothing of the plugin is in place after the step: no interceptor, no
\* poll, no timeout, no API object, and the step injected nothing
NothingInstalled ==
    /\ unpatches' = 0
    /\ ~channelMonitorInterval'
    /\ ~api'
    /\ timers' = {}
    /\ out'.kind \notin {"inject", "reinject"}

\* onLoad returns from initModules
ModulesLooked == loadPc = "delay1" /\ loadPc' # "delay1"

\* C38: when initModules finds the channel store or the user store missing,
\* onLoad ends at once with nothing installed, and nothing is installed or
\* injected afterwards
C38_NoStoresNoSetup ==
    [][/\ (ModulesLooked /\ out'.why # "") =>
              (loadPc' = "failed" /\ NothingInstalled)
       /\ loadPc = "failed" =>
              (loadPc' = "failed" /\ NothingInstalled)]_vars

\* the load failed over the user store alone, with messages in the store
C38_Witness ==
    /\ loadPc = "failed"
    /\ out.kind = "onLoad"
    /\ out.why = "UserStore"
    /\ DOMAIN persistentMessages # {}


----------------------------------------------------------------------------
(* C39: what a save does to the store *)

\* every property of message m has a value JSON can write
Serializable(m) ==
    "global_name" \in DOMAIN m.author => m.author.global_name # "undefined"

\* message b is message a as JSON writes it: the same id, channel, time and
\* author, and the display name when a has one
SameMessage(a, b) ==
    /\ b.id = a.id
    /\ b.channel_id = a.channel_id
    /\ b.timestamp = a.timestamp
    /\ b.author.id = a.author.id
    /\ b.author.username = a.author.username
    /\ ("global_name" \in DOMAIN a.author
            /\ a.author.global_name # "undefined") =>
           /\ "global_name" \in DOMAIN b.author
           /\ b.author.global_name = a.author.global_name

====
